---- MODULE Spec2Model ----
(***************************************************************************)
(* Offline-first synchronisation of the journaling client: the useAutoSync *)
(* hook (single-flight flag, interval, startup and catch-up timeouts,      *)
(* manual requests), the Identity Resolver userService and the diary       *)
(* gateway diaryService.syncDiaries, against a remote users relation and   *)
(* the answers of the remote diary relation.                               *)
(*                                                                         *)
(* React state is modelled with its closures: a callback created in a      *)
(* render sees the isSyncing and currentUser of that render.  A state      *)
(* change re-renders at once and re-runs the effects whose dependencies    *)
(* changed; state setters called in one synchronous run of code are        *)
(* applied together (the last value wins).  Time is abstracted: a remote   *)
(* call may answer at any later moment and a pending timeout may fire at   *)
(* any later moment, but timeouts of the same delay fire in the order in   *)
(* which they were scheduled.                                              *)
(***************************************************************************)
EXTENDS Integers, Sequences, FiniteSets, Bags, TLC

\* Bounds of the model.
MaxPasses == 2      \* sync passes started in one behaviour
MaxEntries == 2     \* records in the local diary collection
MaxGatewayCalls == 3 \* direct calls of the userService in one behaviour
MaxCallers == 2     \* concurrent callers of createOrGetUser
MaxConsents == 2    \* consent records
MaxScore == 1       \* largest score a local diary record holds
MaxBackupOps == 3   \* uses of the backup panel (file choice, backup, restore) in one behaviour
MaxBatch == 3       \* records in one batch given to syncDiaries
MaxClock == 3       \* readings of the millisecond clock, from 1

\* Values of the program.
Null == "null"
LOCAL_USER_ID == "local-user-id"
DefaultScore == 50            \* the score of a record without one
RemoteId == "uuid-1"          \* the id the remote assigns to the users row
Username == "alice"           \* the one username of the device

VARIABLES
    isLocalMode,        \* VITE_LOCAL_MODE === 'true'
    credentials,        \* supabaseUrl && supabaseAnonKey
    deviceUser,         \* getCurrentUser()?.lineUsername, or Null
    lineUsernameKey,    \* localStorage 'line-username', or Null
    journalEntries,     \* localStorage 'journalEntries'
    isAutoSyncEnabled,  \* localStorage 'auto_sync_enabled' !== 'false'
    mounted,            \* the hook has rendered and run its effects
    isSyncing,          \* React state
    error,              \* React state
    currentUser,        \* React state: the id of currentUser, or Null
    last_sync_time,     \* localStorage 'last_sync_time': number of writes
    lastSyncTime,       \* React state: "equal" when it holds the value stored under
                        \* 'last_sync_time', "older" when it holds an earlier reading
    timers,             \* pending setTimeout callbacks with closures, per delay
    interval,           \* the setInterval callback with its closure
    passes,             \* the sync passes in flight, in start order
    initPc,             \* position of useAutoSync's initializeUser
    gateway,            \* the direct gateway call in flight or just returned; before is the
                        \* identifier a createOrGetUser call returned just before it, again
                        \* says that the same function was called just before it and that
                        \* the remote answered that call with success
    users,              \* remote users relation: a row for Username exists
    started,            \* passes started, by the kind of trigger
    gatewayCalls,       \* direct userService calls made
    lastOp,             \* the sync request handled in the last step, and what it did
    lastDone,           \* the sync pass that ended in the last step, and how
    calls,              \* concurrent createOrGetUser calls: position and answers of each
    consent_histories,  \* localStorage 'consent_histories'
    consentRows,        \* remote consent_histories relation: its rows, each with its id and
                        \* the call that wrote it ("insert" or "upsert")
    messages,           \* remote messages relation: the rows inserted
    diary_entries,      \* remote diary_entries relation: its rows, each with its id and
                        \* its user_id
    entry,              \* a record of the parsed local diary collection: its score fields
    normalized,         \* that record as syncData's entries.map returned it
    formatted,          \* that record as syncDiaries' diaries.map sends it
    diaries,            \* the batch given to syncDiaries: the id of each record, NoId
                        \* for a record without one
    formattedDiaries,   \* the ids of the rows diaries.map has built so far
    now,                \* the clock Date.now() reads, in milliseconds
    cleanup,            \* the call of cleanupTestData: its position, the list it parsed
                        \* and the counts of its result
    localStorage,       \* the local namespace as the backup panel sees it: key -> stored string
    backupFile,         \* React state of AdminBackupRestore: the chosen file
    backupInProgress,   \* React state of AdminBackupRestore
    restoreInProgress,  \* React state of AdminBackupRestore
    status,             \* React state of AdminBackupRestore: "null", "success" or "failure"
    backupData,         \* the document handleCreateFullBackup is building while it awaits
    download,           \* the last document downloaded
    reading,            \* the file the FileReader is reading
    reloadScheduled,    \* setTimeout(() => window.location.reload(), 5000) is pending
    backupOps,          \* uses of the panel so far
    loaded,             \* the document fileReader.onload handled in the last step
    before              \* the local namespace before that step

settings == <<isLocalMode, credentials, deviceUser, lineUsernameKey, isAutoSyncEnabled>>
config == <<settings, journalEntries>>
hookVars == <<mounted, isSyncing, error, currentUser, last_sync_time, lastSyncTime, timers,
              interval, passes, initPc, started>>
vars == <<isLocalMode, credentials, deviceUser, lineUsernameKey,
          journalEntries, isAutoSyncEnabled, mounted, isSyncing, error,
          currentUser, last_sync_time, lastSyncTime, timers, interval, passes, initPc,
          gateway, users, started, gatewayCalls, lastOp,
          lastDone, calls, consent_histories, consentRows, messages, diary_entries,
          entry, normalized, formatted, diaries, formattedDiaries, now, cleanup, localStorage, backupFile, backupInProgress,
          restoreInProgress, status, backupData, download, reading, reloadScheduled,
          backupOps, loaded, before>>

resolverVars == <<calls>>
remoteVars == <<consent_histories, consentRows, messages>>
\* the state of the components a step of the hook leaves alone
idVars == <<diaries, formattedDiaries, now>>
normalizeVars == <<entry, normalized, formatted, idVars, cleanup>>
backupVars == <<localStorage, backupFile, backupInProgress, restoreInProgress, status,
                backupData, download, reading, reloadScheduled, backupOps, loaded, before>>
aside == <<resolverVars, remoteVars, normalizeVars, backupVars>>
apart == <<aside, diary_entries>>

\* export const supabase = (!isLocalMode && url && key) ? createClient : null
supabase == ~isLocalMode /\ credentials

Triggers == {"startup", "catchup", "interval", "event", "direct"}
Requested == {"interval", "event", "direct"}
Kind(trigger) == IF trigger \in Requested THEN "requested" ELSE trigger
Total(f) == f["startup"] + f["catchup"] + f["requested"]

\* The local diary collection: no key, a string that is no JSON, JSON that is
\* no array, or the array of the records with the ids 1..n.
Batch(n) == [i \in 1..n |-> i]
EntriesValues ==
    {[kind |-> k, items |-> <<>>] : k \in {"absent", "malformed", "notlist"}}
    \cup {[kind |-> "list", items |-> Batch(n)] : n \in 0..MaxEntries}

NoOp == [op |-> "none", started |-> FALSE, returned |-> "none", duringPass |-> FALSE]
NoTimers == [startup |-> <<>>, catchup |-> <<>>]
NoPass == [ended |-> FALSE, result |-> FALSE, rejected |-> FALSE,
           wrote |-> FALSE, error |-> Null, resolved |-> "none",
           userId |-> Null, bulk |-> "none", bulkCalls |-> 0,
           attempted |-> <<>>, succeeded |-> 0, message |-> FALSE,
           count |-> 0, total |-> 0]
NoRow == [sender_id |-> Null, counselor_id |-> Null, is_counselor |-> FALSE]
NoResult == [success |-> FALSE, error |-> Null, message |-> FALSE, count |-> 0, total |-> 0]
NoArgs == [total |-> 0, record |-> 0, row |-> NoRow, userId |-> Null]
NoQuery == [from |-> "none", eq |-> "none", order |-> "none", ascending |-> FALSE]
NoGateway == [fn |-> "none", pc |-> "idle", value |-> Null, res |-> NoResult,
              selects |-> 0, inserts |-> 0, remote |-> 0,
              lookup |-> "none", before |-> Null, query |-> NoQuery, answer |-> "none",
              again |-> FALSE,
              total |-> 0, idx |-> 0, successCount |-> 0, record |-> 0, row |-> NoRow,
              userId |-> Null, user_id |-> Null]
NoInterval == [active |-> FALSE, isSyncing |-> FALSE, currentUser |-> Null]

Callers == 1..MaxCallers
NoCall == [pc |-> "idle", value |-> Null, lookup |-> "none", insert |-> "none"]

\* the hook before its first render, and no direct call made
Unmounted ==
    /\ mounted = FALSE
    /\ isSyncing = FALSE
    /\ error = Null
    /\ currentUser = Null
    /\ last_sync_time = 0
    /\ lastSyncTime = "equal"
    /\ timers = NoTimers
    /\ interval = NoInterval
    /\ passes = <<>>
    /\ initPc = "idle"
    /\ gateway = NoGateway
    /\ started = [startup |-> 0, catchup |-> 0, requested |-> 0]
    /\ gatewayCalls = 0
    /\ lastOp = NoOp
    /\ lastDone = NoPass

\* no concurrent call of createOrGetUser made
NoCalls == calls = [c \in Callers |-> NoCall]

\* the local consent collection: no key, a string that is no JSON, JSON that is
\* no array, or the array of the records with the ids in items
ConsentIds == 1..MaxConsents
Histories(kind, items) == [kind |-> kind, items |-> items]
HistoriesValues ==
    {Histories(k, {}) : k \in {"absent", "malformed", "notlist"}}
    \cup {Histories("list", S) : S \in SUBSET ConsentIds}

\* no consent record and no message anywhere
NoRemote ==
    /\ consent_histories = Histories("absent", {})
    /\ consentRows = {}
    /\ messages = {}
    /\ diary_entries = {}

\* JavaScript values of a score field: undefined (no such field), null, a
\* number, the decimal string of a number, a string that is no number, NaN
Undefined == [t |-> "undefined", n |-> 0]
JsNull == [t |-> "null", n |-> 0]
NotANumber == [t |-> "NaN", n |-> 0]
Text == [t |-> "text", n |-> 0]
Num(n) == [t |-> "number", n |-> n]
Str(n) == [t |-> "string", n |-> n]
ScoreValues == {Undefined, JsNull, Text} \cup {Num(n) : n \in 0..MaxScore}
               \cup {Str(n) : n \in 0..MaxScore}

NoScores == [self_esteem_score |-> Undefined, worthlessness_score |-> Undefined,
             selfEsteemScore |-> Undefined, worthlessnessScore |-> Undefined]
NoRecord == [version |-> "none", self_esteem_score |-> Undefined,
             worthlessness_score |-> Undefined, selfEsteemScore |-> Undefined,
             worthlessnessScore |-> Undefined]
NoFormatted == [sent |-> FALSE, self_esteem_score |-> Undefined,
                worthlessness_score |-> Undefined]

\* no batch being formatted, and cleanupTestData not called
NoCleanup == [pc |-> "idle", parsed |-> FALSE, entries |-> <<>>, answer |-> "none",
              localRemoved |-> 0, supabaseRemoved |-> 0, success |-> FALSE]
NoIds ==
    /\ diaries = <<>>
    /\ formattedDiaries = <<>>
    /\ now = 0
    /\ cleanup = NoCleanup

\* no record being normalized
NoEntry ==
    /\ entry = NoScores
    /\ normalized = NoRecord
    /\ formatted = NoFormatted
    /\ NoIds

\* Stored strings.  Absent: the key is not there.  Empty: ''.  Raw(n): a string
\* that is no JSON (a name, a timestamp).  List(n, spaced): JSON text of an array
\* of n records, spaced when it is not the text JSON.stringify gives.  Atom(n): JSON
\* text of a number, a boolean or null.  Quoted(n): the JSON string literal of
\* Raw(n), and of '' for n = 0.
Stored(form, n, spaced) == [form |-> form, n |-> n, spaced |-> spaced]
Absent == Stored("absent", 0, FALSE)
Empty == Stored("empty", 0, FALSE)
Raw(n) == Stored("raw", n, FALSE)
List(n, spaced) == Stored("list", n, spaced)
Atom(n) == Stored("atom", n, FALSE)
Quoted(n) == Stored("quoted", n, FALSE)

\* Values of a parsed document: a string with its characters, or another JSON
\* value with the text JSON.stringify gives for it.
Value(type, text) == [type |-> type, text |-> text]
NoValue == Value("absent", Absent)

Keys == {"journalEntries", "current_counselor", "line-username"}
NoKeys == [k \in Keys |-> Absent]
NoSection == [k \in Keys |-> NoValue]

\* Files: kind "invalid" is a file that is no JSON; metadata is "absent", "ok",
\* or "noversion" for a metadata object without version.
File(kind, metadata, creator, hasSection, section, supabaseData) ==
    [kind |-> kind, metadata |-> metadata, creator |-> creator,
     hasSection |-> hasSection, section |-> section, supabaseData |-> supabaseData]
NoFile == File("none", "absent", "admin", FALSE, NoSection, "null")

\* the backup panel before any use, over an empty namespace
NoBackup ==
    /\ localStorage = NoKeys
    /\ backupFile = NoFile
    /\ backupInProgress = FALSE
    /\ restoreInProgress = FALSE
    /\ status = "null"
    /\ backupData = NoFile
    /\ download = NoFile
    /\ reading = NoFile
    /\ reloadScheduled = FALSE
    /\ backupOps = 0
    /\ loaded = NoFile
    /\ before = NoKeys

\* A device with a current user keeps that user's name under 'line-username'.
Init ==
    /\ isLocalMode \in BOOLEAN
    /\ credentials \in BOOLEAN
    /\ deviceUser \in {Null, Username}
    /\ lineUsernameKey \in IF deviceUser = Null THEN {Null, Username} ELSE {Username}
    /\ journalEntries \in EntriesValues
    /\ isAutoSyncEnabled \in BOOLEAN
    /\ users \in BOOLEAN
    /\ Unmounted
    /\ NoCalls
    /\ NoRemote
    /\ NoEntry
    /\ NoBackup
(***************************************************************************)
(* The Identity Resolver and the diary gateway, as the code computes them. *)
(* A remote call answers with one of the outcomes the remote can produce.  *)
(***************************************************************************)
\* .select('*').eq('line_username', u).single(): the row, 'no row found', another error, or a raise
LookupOutcomes == (IF users THEN {"row"} ELSE {"PGRST116"}) \cup {"error", "throw"}
\* .insert([{line_username}]): line_username is UNIQUE, so it succeeds only when no
\* row exists; with a row it answers with the unique violation ("conflict")
InsertOutcomes == (IF users THEN {"conflict"} ELSE {"ok"}) \cup {"error", "throw"}
UpsertOutcomes == {"ok", "error", "throw"}

Return(v) == [pc |-> "return", value |-> v]

\* createOrGetUser up to its first remote call
CreateOrGetUserEntry ==
    IF ~supabase THEN Return(Null)
    ELSE IF isLocalMode THEN Return(LOCAL_USER_ID)
    ELSE [pc |-> "lookup", value |-> Null]

\* a variant of AfterLookup that goes on to the insert after any lookup error
AfterLookup_InsertsOnError(o) ==
    IF o = "row" THEN Return(RemoteId) ELSE [pc |-> "insert", value |-> Null]

\* a variant of AfterLookup that ignores the row the lookup found
AfterLookup_IgnoresRow(o) ==
    IF o \in {"error", "throw"} THEN Return(Null) ELSE [pc |-> "insert", value |-> Null]

\* createOrGetUser after the lookup answered
AfterLookup(o) ==
    IF o \in {"error", "throw"} THEN Return(Null)
    ELSE IF o = "row" THEN Return(RemoteId)
    ELSE [pc |-> "insert", value |-> Null]

\* createOrGetUser after the insert answered
AfterInsert(o) == IF o = "ok" THEN Return(RemoteId) ELSE Return(Null)

\* getUserId up to its remote call
GetUserIdEntry ==
    IF ~supabase THEN Return(Null)
    ELSE IF isLocalMode THEN Return(LOCAL_USER_ID)
    ELSE [pc |-> "lookup", value |-> Null]

\* getUserId after the select answered: any error, 'no row found' included, is null
AfterGetUserId(o) == IF o = "row" THEN Return(RemoteId) ELSE Return(Null)

\* the result objects of syncDiaries: { success, error } on failure, { success, data }
\* after the bulk upsert, { success, data: { message: `${count}/${total} ...` } } after the fallback
Failure(msg) == [success |-> FALSE, error |-> msg, message |-> FALSE, count |-> 0, total |-> 0]
BulkSuccess == [success |-> TRUE, error |-> Null, message |-> FALSE, count |-> 0, total |-> 0]
PartialSuccess(count, total) ==
    [success |-> TRUE, error |-> Null, message |-> TRUE, count |-> count, total |-> total]

\* a variant of SyncDiariesEntry that takes any user id given
SyncDiariesEntry_AnyUser(userId) ==
    IF ~supabase THEN [pc |-> "return", res |-> Failure("no-connection")]
    ELSE IF isLocalMode \/ userId = Null
         THEN [pc |-> "return", res |-> Failure("invalid-user")]
    ELSE [pc |-> "bulk", res |-> Failure(Null)]

\* syncDiaries up to the bulk upsert: "bulk" means the upsert is issued;
\* !userId holds of null, of undefined and of the empty string
SyncDiariesEntry(userId) ==
    IF ~supabase THEN [pc |-> "return", res |-> Failure("no-connection")]
    ELSE IF isLocalMode \/ userId \in {Null, ""} \/ userId = LOCAL_USER_ID
         THEN [pc |-> "return", res |-> Failure("invalid-user")]
    ELSE [pc |-> "bulk", res |-> Failure(Null)]

\* a variant of CountSingle that counts every attempt
CountSingle_CountsAttempts(successCount, o) == successCount + 1

\* successCount after one per-record upsert answered
CountSingle(successCount, o) == IF o = "ok" THEN successCount + 1 ELSE successCount

\* a variant of FallbackResult that succeeds only when every record was upserted
FallbackResult_NeedsAll(successCount, total) ==
    IF successCount = total THEN PartialSuccess(successCount, total) ELSE Failure("sync-error")

\* the result of the per-record fallback
FallbackResult(successCount, total) ==
    IF successCount > 0 THEN PartialSuccess(successCount, total) ELSE Failure("sync-error")

\* the user_id of every row of formattedDiaries: diaries.map sets user_id: userId
FormatUserId(userId) == userId

Range(seq) == {seq[k] : k \in 1..Len(seq)}
DiaryRow(id, user_id) == [id |-> id, user_id |-> user_id]

\* a variant of UpsertDiaries that writes the first row only
UpsertDiaries_FirstRowOnly(rows, ids, user_id) ==
    {r \in rows : r.id \notin ids}
    \cup {DiaryRow(i, user_id) : i \in {j \in ids : \A k \in ids : j <= k}}

\* .from('diary_entries').upsert(..., { onConflict: 'id', ignoreDuplicates: false })
\* answered with success: the rows with the ids sent are replaced by those sent
UpsertDiaries(rows, ids, user_id) ==
    {r \in rows : r.id \notin ids} \cup {DiaryRow(i, user_id) : i \in ids}

\* a variant of AfterBulk that starts the per-record loop after a raise too
AfterBulk_FallbackOnThrow(o, total) ==
    IF o = "ok" THEN [pc |-> "return", res |-> BulkSuccess]
    ELSE IF total = 0 THEN [pc |-> "return", res |-> FallbackResult(0, total)]
    ELSE [pc |-> "single", res |-> Failure(Null)]

\* syncDiaries after the bulk upsert answered: "single" starts the per-record loop
AfterBulk(o, total) ==
    IF o = "throw" THEN [pc |-> "return", res |-> Failure("sync-throw")]
    ELSE IF o = "ok" THEN [pc |-> "return", res |-> BulkSuccess]
    ELSE IF total = 0 THEN [pc |-> "return", res |-> FallbackResult(0, total)]
    ELSE [pc |-> "single", res |-> Failure(Null)]

\* a variant of AfterSingle that leaves the loop at the first failed record
AfterSingle_StopsAtFailure(idx, successCount, total) ==
    IF idx < total /\ successCount = idx THEN [pc |-> "single", res |-> Failure(Null)]
    ELSE [pc |-> "return", res |-> FallbackResult(successCount, total)]

\* the loop over formattedDiaries: the next record, or the end of the loop
AfterSingle(idx, successCount, total) ==
    IF idx < total THEN [pc |-> "single", res |-> Failure(Null)]
    ELSE [pc |-> "return", res |-> FallbackResult(successCount, total)]

(***************************************************************************)
(* syncData, cut at its awaits.  A segment yields where the pass goes next *)
(* and, when it ends, what it returned, whether it wrote last_sync_time    *)
(* and the message it passed to setError (Null: setError was not called).  *)
(* rejected says that the promise of the pass was rejected with what was   *)
(* thrown, and not resolved.                                               *)
(***************************************************************************)
Seg(next, result, wrote, err, userId, res) ==
    [next |-> next, result |-> result, wrote |-> wrote, err |-> err,
     userId |-> userId, res |-> res, rejected |-> FALSE]

\* a variant of Caught without the catch block: what was thrown leaves syncData
Caught_Propagates(msg, userId, res) ==
    [Seg("done", FALSE, FALSE, Null, userId, res) EXCEPT !.rejected = TRUE]

\* something was thrown inside the try of syncData:
\* catch (error) { setError(error.message); return false }
Caught(msg, userId, res) == Seg("done", FALSE, FALSE, msg, userId, res)

\* a variant of SyncDataSkips without the two configuration guards
SyncDataSkips_FlagOnly(cl) == cl.isSyncing

\* if (!supabase) / if (isLocalMode) / if (isSyncing): return false
SyncDataSkips(cl) == ~supabase \/ isLocalMode \/ cl.isSyncing

\* user?.lineUsername || localStorage.getItem('line-username')
LineUsername == IF deviceUser # Null THEN deviceUser ELSE lineUsernameKey

\* a variant of AfterSyncDiaries that writes the timestamp before it looks at success
AfterSyncDiaries_WritesFirst(res, userId) ==
    IF ~res.success THEN Seg("done", FALSE, TRUE, res.error, userId, res)
    ELSE Seg("done", TRUE, TRUE, Null, userId, res)

\* after syncDiaries returned: throw on failure, else write the timestamp
AfterSyncDiaries(res, userId) ==
    IF ~res.success THEN Caught(res.error, userId, res)
    ELSE Seg("done", TRUE, TRUE, Null, userId, res)

\* from the read of 'journalEntries' to the bulk upsert
ReadEntries(userId) ==
    IF journalEntries.kind = "absent"
    THEN Seg("done", TRUE, TRUE, Null, userId, Failure(Null))
    ELSE IF journalEntries.kind = "malformed"
    THEN Caught("parse-error", userId, Failure(Null))
    ELSE IF journalEntries.kind = "notlist"
    THEN Caught("type-error", userId, Failure(Null))
    ELSE LET e == SyncDiariesEntry(userId) IN
         IF e.pc = "return" THEN AfterSyncDiaries(e.res, userId)
         ELSE Seg("bulk", FALSE, FALSE, Null, userId, e.res)

\* a variant of AfterResolve that goes on with the sentinel when no user came back
AfterResolve_FallsBackToSentinel(value) ==
    IF value = Null THEN ReadEntries(LOCAL_USER_ID) ELSE ReadEntries(value)

\* after createOrGetUser returned supabaseUser (its id, or Null)
AfterResolve(value) ==
    IF value = Null THEN Seg("done", FALSE, FALSE, Null, Null, Failure(Null))
    ELSE ReadEntries(value)

\* from setIsSyncing(true) to the first await
FirstSegment(cl) ==
    IF LineUsername = Null
    THEN IF isLocalMode THEN ReadEntries(LOCAL_USER_ID)
         ELSE Seg("done", FALSE, FALSE, Null, Null, Failure(Null))
    ELSE LET userId == IF cl.currentUser # Null THEN cl.currentUser ELSE LOCAL_USER_ID IN
         IF userId # LOCAL_USER_ID THEN ReadEntries(userId)
         ELSE IF isLocalMode THEN ReadEntries(LOCAL_USER_ID)
         ELSE LET e == CreateOrGetUserEntry IN
              IF e.pc = "return" THEN AfterResolve(e.value)
              ELSE Seg("lookup", FALSE, FALSE, Null, Null, Failure(Null))
(***************************************************************************)
(* Rendering: the effects of the hook, re-run when a dependency changed.   *)
(***************************************************************************)
Closure(s, u) == [isSyncing |-> s, currentUser |-> u]

\* The effect on [triggerManualSync, isSyncing]: the timeouts one run of it adds to ts.
\* A catch-up callback created while isSyncing is true is inert: whenever it runs,
\* its syncData returns false at "if (isSyncing)" and changes nothing.  Inert
\* callbacks are left out of the queue.
SyncEffect(ts, cl) ==
    [startup |-> IF ~isLocalMode /\ ~cl.isSyncing THEN Append(ts.startup, cl) ELSE ts.startup,
     catchup |-> IF ~isLocalMode /\ ~cl.isSyncing THEN Append(ts.catchup, cl) ELSE ts.catchup]

\* the effect on [isAutoSyncEnabled, isSyncing]: the interval it leaves running
IntervalEffect(cl) ==
    IF isAutoSyncEnabled /\ supabase /\ ~isLocalMode
    THEN [active |-> TRUE, isSyncing |-> cl.isSyncing, currentUser |-> cl.currentUser]
    ELSE NoInterval

\* a re-render after isSyncing := s and, when userSet, setCurrentUser(u)
Render(s, u, userSet, baseTimers) ==
    /\ isSyncing' = s
    /\ currentUser' = u
    /\ timers' = IF s # isSyncing \/ userSet
                 THEN SyncEffect(baseTimers, Closure(s, u))
                 ELSE baseTimers
    /\ interval' = IF s # isSyncing THEN IntervalEffect(Closure(s, u)) ELSE interval

Op(trigger, didStart, returned) ==
    [op |-> IF trigger \in {"event", "direct"} THEN "manual" ELSE "timer",
     started |-> didStart, returned |-> returned, duringPass |-> passes # <<>>]

Returned(r) ==
    IF r.next # "done" THEN "pending"
    ELSE IF r.rejected THEN "rejected"
    ELSE IF r.result THEN "true" ELSE "false"

RemoveAt(seq, i) == [j \in 1..(Len(seq) - 1) |-> IF j < i THEN seq[j] ELSE seq[j + 1]]

\* what is recorded of a pass when it ends
Ended(p, r, errAfter) ==
    [ended |-> TRUE, result |-> r.result, rejected |-> r.rejected, wrote |-> r.wrote,
     error |-> errAfter, resolved |-> p.resolved, userId |-> r.userId,
     bulk |-> p.bulk, bulkCalls |-> p.bulkCalls, attempted |-> p.attempted,
     succeeded |-> p.succeeded, message |-> r.res.message,
     count |-> r.res.count, total |-> r.res.total]

\* a variant of StoredEntries that empties the collection once a pass has succeeded
StoredEntries_EmptiedOnSuccess(entries, r) ==
    IF r.next = "done" /\ r.result /\ entries.kind = "list"
    THEN [kind |-> "list", items |-> <<>>]
    ELSE entries

\* 'journalEntries' after a segment r of a pass: syncData and syncDiaries read
\* the key and call setItem on 'last_sync_time' only
StoredEntries(entries, r) == entries

\* a variant of SetLastSyncTime with one reading of the clock on every path
SetLastSyncTime_OneReading(r) == IF r.wrote THEN {"equal"} ELSE {lastSyncTime}

\* lastSyncTime after a segment r.  With no stored collection the pass calls
\* setLastSyncTime(new Date().toISOString()) and then setItem('last_sync_time',
\* new Date().toISOString()): two readings of the clock, the same millisecond
\* or not.  After syncDiaries it passes one reading, now, to both.
SetLastSyncTime(r) ==
    IF ~r.wrote THEN {lastSyncTime}
    ELSE IF r.res.success THEN {"equal"}
    ELSE {"equal", "older"}

\* a variant of Flag without the finally block
Flag_NoFinally(fin, first) == IF first THEN TRUE ELSE isSyncing

\* isSyncing after a segment: setIsSyncing(true) in the first one, and
\* finally { setIsSyncing(false) } in the one that ends the pass
Flag(fin, first) == IF fin THEN FALSE ELSE IF first THEN TRUE ELSE isSyncing

\* The state after a segment r of pass p (position i of passes, or a new pass):
\* first is TRUE for the segment that called setIsSyncing(true) and setError(null).
Advance(i, p, r, first, userSet, baseTimers) ==
    LET fin == r.next = "done"
        errAfter == IF r.err # Null THEN r.err ELSE IF first THEN Null ELSE error
        q == [p EXCEPT !.pc = r.next, !.userId = r.userId,
                       !.bulkCalls = IF r.next = "bulk" THEN @ + 1 ELSE @,
                       !.attempted = IF r.next = "single"
                                      THEN Append(@, journalEntries.items[p.idx + 1])
                                      ELSE @,
                       !.idx = IF r.next = "single" THEN @ + 1 ELSE @]
    IN /\ error' = errAfter
       /\ journalEntries' = StoredEntries(journalEntries, r)
       /\ last_sync_time' = IF r.wrote THEN last_sync_time + 1 ELSE last_sync_time
       /\ lastSyncTime' \in SetLastSyncTime(r)
       /\ passes' = IF fin THEN (IF first THEN passes ELSE RemoveAt(passes, i))
                    ELSE IF first THEN Append(passes, q)
                    ELSE [passes EXCEPT ![i] = q]
       /\ lastDone' = IF fin THEN Ended(q, r, errAfter) ELSE NoPass
       /\ Render(Flag(fin, first),
                 IF userSet THEN r.userId ELSE currentUser, userSet, baseTimers)

NewPass ==
    [pc |-> "start", userId |-> Null, idx |-> 0,
     successCount |-> 0, resolved |-> "none", bulk |-> "none", bulkCalls |-> 0,
     attempted |-> <<>>, succeeded |-> 0]

(***************************************************************************)
(* syncData called through a closure cl by one of the triggers.            *)
(***************************************************************************)
syncData(trigger, cl, baseTimers) ==
    IF SyncDataSkips(cl)
    THEN /\ lastOp' = Op(trigger, FALSE, "false")
         /\ timers' = baseTimers
         /\ lastDone' = NoPass
         /\ UNCHANGED <<isSyncing, error, currentUser, last_sync_time, lastSyncTime, interval,
                        passes, started, journalEntries>>
    ELSE /\ Total(started) < MaxPasses
         /\ started' = [started EXCEPT ![Kind(trigger)] = @ + 1]
         /\ LET r == FirstSegment(cl)
                p == [NewPass EXCEPT
                        !.resolved = IF r.next = "lookup" THEN "lookup"
                                     ELSE IF r.userId = Null THEN "none" ELSE "cached"]
            IN /\ Advance(0, p, r, TRUE, FALSE, baseTimers)
               /\ lastOp' = Op(trigger, TRUE, Returned(r))

\* first render and the mount effects: settings, initializeUser, interval, listener and timeouts
Mount ==
    /\ ~mounted
    /\ mounted' = TRUE
    /\ LET localUser == (~supabase \/ isLocalMode) /\ deviceUser # Null
           u == IF localUser THEN LOCAL_USER_ID ELSE Null
       IN /\ currentUser' = u
          /\ timers' = LET first == SyncEffect(NoTimers, Closure(FALSE, Null)) IN
                       IF localUser THEN SyncEffect(first, Closure(FALSE, u)) ELSE first
          /\ initPc' = IF supabase /\ ~isLocalMode /\ deviceUser # Null
                       THEN CreateOrGetUserEntry.pc ELSE "done"
          /\ lastOp' = NoOp
    /\ interval' = IntervalEffect(Closure(FALSE, Null))
    /\ UNCHANGED <<config, apart, isSyncing, error, last_sync_time, lastSyncTime, passes,
                   gateway, users,
                   started, gatewayCalls, lastDone>>

\* setTimeout(..., 3000): triggerManualSync of the render that scheduled it
StartupTimeout ==
    /\ mounted
    /\ timers.startup # <<>>
    /\ syncData("startup", Head(timers.startup),
                [timers EXCEPT !.startup = Tail(@)])
    /\ UNCHANGED <<settings, apart, mounted, initPc, gateway, users, gatewayCalls>>

\* setTimeout(..., 30000): triggerManualSync of the render that scheduled it
CatchupTimeout ==
    /\ mounted
    /\ timers.catchup # <<>>
    /\ syncData("catchup", Head(timers.catchup),
                [timers EXCEPT !.catchup = Tail(@)])
    /\ UNCHANGED <<settings, apart, mounted, initPc, gateway, users, gatewayCalls>>

\* setInterval(() => { if (!isSyncing) syncData() }, 30 * 1000)
IntervalTick ==
    /\ mounted
    /\ interval.active
    /\ IF ~interval.isSyncing
       THEN syncData("interval", Closure(interval.isSyncing, interval.currentUser), timers)
       ELSE /\ lastOp' = Op("interval", FALSE, "none")
            /\ lastDone' = NoPass
            /\ UNCHANGED <<hookVars, journalEntries>>
    /\ UNCHANGED <<settings, apart, mounted, initPc, gateway, users, gatewayCalls>>

\* the 'manual-sync-request' listener of the current render
handleManualSyncRequest ==
    /\ mounted
    /\ IF ~isSyncing /\ ~isLocalMode
       THEN syncData("event", Closure(isSyncing, currentUser), timers)
       ELSE /\ lastOp' = Op("event", FALSE, "none")
            /\ lastDone' = NoPass
            /\ UNCHANGED <<hookVars, journalEntries>>
    /\ UNCHANGED <<settings, apart, mounted, initPc, gateway, users, gatewayCalls>>

\* the triggerManualSync the hook returned in the current render
triggerManualSync ==
    /\ mounted
    /\ syncData("direct", Closure(isSyncing, currentUser), timers)
    /\ UNCHANGED <<settings, apart, mounted, initPc, gateway, users, gatewayCalls>>
(***************************************************************************)
(* The answers of the remote to the calls of a pass in flight.             *)
(***************************************************************************)
others == <<settings, apart, mounted, initPc, gateway, gatewayCalls, started>>
\* what the answer to an upsert leaves alone, the remote diary relation apart
upsertFrame == <<settings, aside, mounted, initPc, gateway, gatewayCalls, started, users>>

\* the lookup of createOrGetUser answers pass i
LookupResponse ==
    \E i \in 1..Len(passes) : \E o \in LookupOutcomes :
        /\ passes[i].pc = "lookup"
        /\ LET a == AfterLookup(o) IN
           IF a.pc = "insert"
           THEN /\ Advance(i, passes[i], Seg("insert", FALSE, FALSE, Null, Null, Failure(Null)),
                           FALSE, FALSE, timers)
                /\ lastOp' = NoOp
           ELSE LET r == AfterResolve(a.value) IN
                /\ Advance(i, passes[i], r, FALSE, a.value # Null, timers)
                /\ lastOp' = NoOp
        /\ UNCHANGED <<others, users>>

\* the insert of createOrGetUser answers pass i
InsertResponse ==
    \E i \in 1..Len(passes) : \E o \in InsertOutcomes :
        /\ passes[i].pc = "insert"
        /\ users' = (users \/ o = "ok")
        /\ LET a == AfterInsert(o)
               r == AfterResolve(a.value)
           IN /\ Advance(i, passes[i], r, FALSE, a.value # Null, timers)
              /\ lastOp' = NoOp
        /\ UNCHANGED <<others>>

\* the bulk upsert of syncDiaries answers pass i with o
BulkAnswer(i, o) ==
    /\ passes[i].pc = "bulk"
    /\ LET p == [passes[i] EXCEPT !.bulk = o]
           a == AfterBulk(o, Len(journalEntries.items))
           r == IF a.pc = "return" THEN AfterSyncDiaries(a.res, p.userId)
                ELSE Seg("single", FALSE, FALSE, Null, p.userId, a.res)
       IN /\ Advance(i, p, r, FALSE, FALSE, timers)
          /\ lastOp' = NoOp
    /\ UNCHANGED upsertFrame

\* the upsert of record idx answers pass i with o
SingleAnswer(i, o) ==
    /\ passes[i].pc = "single"
    /\ LET n == CountSingle(passes[i].successCount, o)
           p == [passes[i] EXCEPT !.successCount = n,
                                  !.succeeded = IF o = "ok" THEN @ + 1 ELSE @]
           a == AfterSingle(p.idx, n, Len(journalEntries.items))
           r == IF a.pc = "return" THEN AfterSyncDiaries(a.res, p.userId)
                ELSE Seg("single", FALSE, FALSE, Null, p.userId, a.res)
       IN /\ Advance(i, p, r, FALSE, FALSE, timers)
          /\ lastOp' = NoOp
    /\ UNCHANGED upsertFrame

\* the answers to the upserts of the passes, the rows of the remote left aside
BulkResponse ==
    \E i \in 1..Len(passes) : \E o \in UpsertOutcomes :
        BulkAnswer(i, o) /\ UNCHANGED diary_entries

SingleResponse ==
    \E i \in 1..Len(passes) : \E o \in UpsertOutcomes :
        SingleAnswer(i, o) /\ UNCHANGED diary_entries

(***************************************************************************)
(* initializeUser of useAutoSync, started by the mount effect.             *)
(***************************************************************************)
\* if (supabaseUser) setCurrentUser(supabaseUser)
InitReturn(a) ==
    /\ initPc' = IF a.pc = "return" THEN "done" ELSE a.pc
    /\ IF a.pc = "return" /\ a.value # Null
       THEN Render(isSyncing, a.value, TRUE, timers)
       ELSE UNCHANGED <<isSyncing, currentUser, timers, interval>>
    /\ lastOp' = NoOp
    /\ lastDone' = NoPass
    /\ UNCHANGED <<config, apart, mounted, error, last_sync_time, lastSyncTime, passes, gateway,
                   started, gatewayCalls>>

InitLookupResponse ==
    \E o \in LookupOutcomes :
        /\ initPc = "lookup"
        /\ InitReturn(AfterLookup(o))
        /\ UNCHANGED users

InitInsertResponse ==
    \E o \in InsertOutcomes :
        /\ initPc = "insert"
        /\ users' = (users \/ o = "ok")
        /\ InitReturn(AfterInsert(o))

Next ==
    \/ Mount
    \/ StartupTimeout
    \/ CatchupTimeout
    \/ IntervalTick
    \/ handleManualSyncRequest
    \/ triggerManualSync
    \/ LookupResponse
    \/ InsertResponse
    \/ BulkResponse
    \/ SingleResponse
    \/ InitLookupResponse
    \/ InitInsertResponse

Spec == Init /\ [][Next]_vars

\* The hook with a client, under the condition that every remote call of a
\* pass in flight is answered, by a result or by a raise.  The batch holds at
\* most one record: the per-record loop does the same step once per record.
LiveInit ==
    /\ Init
    /\ ~isLocalMode /\ credentials
    /\ isAutoSyncEnabled
    /\ Len(journalEntries.items) <= 1

Response == LookupResponse \/ InsertResponse \/ BulkResponse \/ SingleResponse

LiveSpec == LiveInit /\ [][Next]_vars /\ WF_vars(Response)

(***************************************************************************)
(* The hook of a signed-in device with a client, and the rows its passes   *)
(* leave in the remote diary_entries relation, empty at the start.  An     *)
(* upsert writes its rows when the remote answers it with success.         *)
(***************************************************************************)
DiaryInit ==
    /\ Init
    /\ ~isLocalMode /\ credentials
    /\ isAutoSyncEnabled
    /\ deviceUser = Username

\* the bulk upsert of pass i answers: on success its rows are in the relation
DiaryBulkResponse ==
    \E i \in 1..Len(passes) : \E o \in UpsertOutcomes :
        /\ BulkAnswer(i, o)
        /\ diary_entries' = IF o = "ok"
                            THEN UpsertDiaries(diary_entries, Range(journalEntries.items),
                                               FormatUserId(passes[i].userId))
                            ELSE diary_entries

\* the upsert of record idx of pass i answers: on success its row is in the relation
DiarySingleResponse ==
    \E i \in 1..Len(passes) : \E o \in UpsertOutcomes :
        /\ SingleAnswer(i, o)
        /\ diary_entries' = IF o = "ok"
                            THEN UpsertDiaries(diary_entries,
                                               {journalEntries.items[passes[i].idx]},
                                               FormatUserId(passes[i].userId))
                            ELSE diary_entries

DiaryNext ==
    \/ Mount
    \/ StartupTimeout
    \/ CatchupTimeout
    \/ IntervalTick
    \/ handleManualSyncRequest
    \/ triggerManualSync
    \/ LookupResponse
    \/ InsertResponse
    \/ DiaryBulkResponse
    \/ DiarySingleResponse
    \/ InitLookupResponse
    \/ InitInsertResponse

DiarySpec == DiaryInit /\ [][DiaryNext]_vars
(***************************************************************************)
(* The gateway called directly, one call at a time: userService,           *)
(* diaryService, chatService, consentService and syncService.  A call runs *)
(* to its next await; the remote then answers.                             *)
(***************************************************************************)
RemoteOutcomes == {"ok", "error", "throw"}
Pending(pc) == pc \notin {"idle", "return"}
Answer(pc, value, res) == [pc |-> pc, value |-> value, res |-> res]
Success == [success |-> TRUE, error |-> Null, message |-> FALSE, count |-> 0, total |-> 0]

GatewayInit ==
    /\ isLocalMode \in BOOLEAN
    /\ credentials \in BOOLEAN
    /\ deviceUser = Username
    /\ lineUsernameKey = Username
    /\ journalEntries = [kind |-> "absent", items |-> <<>>]
    /\ isAutoSyncEnabled = TRUE
    /\ users \in BOOLEAN
    /\ Unmounted
    /\ NoCalls
    /\ consent_histories \in HistoriesValues
    /\ consentRows = {}
    /\ messages = {}
    /\ diary_entries = {}
    /\ NoEntry
    /\ NoBackup

gatewayFrame == <<config, hookVars, resolverVars, normalizeVars, backupVars, lastOp,
                  lastDone>>

\* a variant of GetUserDiariesEntry without the guard on the missing client
GetUserDiariesEntry_Unguarded == Answer("select", Null, NoResult)

\* getUserDiaries up to its select
GetUserDiariesEntry ==
    IF ~supabase THEN Answer("return", "[]", NoResult)
    ELSE IF isLocalMode THEN Answer("return", "[]", NoResult)
    ELSE Answer("select", Null, NoResult)

\* getChatMessages up to its select
GetChatMessagesEntry ==
    IF ~supabase THEN Answer("return", "[]", NoResult)
    ELSE IF isLocalMode THEN Answer("return", "[]", NoResult)
    ELSE Answer("select", Null, NoResult)

\* getAllConsentHistories up to its select
GetAllConsentHistoriesEntry ==
    IF ~supabase THEN Answer("return", "[]", NoResult)
    ELSE IF isLocalMode THEN Answer("return", "[]", NoResult)
    ELSE Answer("select", Null, NoResult)

\* the select each of the three reads issues
SelectQuery(fn) ==
    IF fn = "getUserDiaries"
    THEN [from |-> "diary_entries", eq |-> "user_id", order |-> "date", ascending |-> FALSE]
    ELSE IF fn = "getChatMessages"
    THEN [from |-> "messages", eq |-> "chat_room_id", order |-> "created_at", ascending |-> TRUE]
    ELSE IF fn = "getAllConsentHistories"
    THEN [from |-> "consent_histories", eq |-> "none", order |-> "consent_date",
          ascending |-> FALSE]
    ELSE NoQuery

\* a variant of AfterSelect that returns the data of a failed select
AfterSelect_ReturnsData(o) ==
    IF o = "throw" THEN Answer("return", "[]", NoResult) ELSE Answer("return", Null, NoResult)

\* the three reads after the select answered: data || [], [] on error or raise
AfterSelect(o) ==
    IF o = "ok" THEN Answer("return", "rows", NoResult) ELSE Answer("return", "[]", NoResult)

\* the message row sendMessage builds from its optional arguments
MessageRow(senderId, counselorId) ==
    LET isCounselor == counselorId \notin {"undefined", ""} IN
    [sender_id |-> IF isCounselor THEN Null ELSE senderId,
     counselor_id |-> IF isCounselor THEN counselorId ELSE Null,
     is_counselor |-> isCounselor]

\* a column of a row sent as JSON holds a value: undefined is not sent, null is NULL
IsSet(v) == v \notin {Null, "undefined"}

\* CONSTRAINT messages_sender_check of the messages relation
messages_sender_check(row) ==
    \/ IsSet(row.sender_id) /\ ~IsSet(row.counselor_id) /\ row.is_counselor = FALSE
    \/ ~IsSet(row.sender_id) /\ IsSet(row.counselor_id) /\ row.is_counselor = TRUE

\* .insert([message]): the remote refuses a row that fails the constraint
SendOutcomes(row) ==
    (IF messages_sender_check(row) THEN {"ok"} ELSE {"check"}) \cup {"error", "throw"}

\* sendMessage up to its insert
SendMessageEntry ==
    IF ~supabase THEN Answer("return", Null, NoResult)
    ELSE IF isLocalMode THEN Answer("return", Null, NoResult)
    ELSE Answer("send", Null, NoResult)

\* sendMessage after the insert answered
AfterSendMessage(o) ==
    IF o = "ok" THEN Answer("return", "row", NoResult) ELSE Answer("return", Null, NoResult)

\* histories.push(consentRecord) on the parsed local collection: the new value of
\* the key, or "throw" when the stored string is no JSON or no array
PushLocally(h, record) ==
    IF h.kind = "absent" THEN Histories("list", {record})
    ELSE IF h.kind = "list" THEN Histories("list", h.items \cup {record})
    ELSE Histories("throw", {})

\* saveConsentHistory up to its insert; "local" is the branch that saves locally
SaveConsentHistoryEntry(record) ==
    IF ~supabase THEN Answer("return", Null, Failure("no-connection"))
    ELSE IF isLocalMode
    THEN IF PushLocally(consent_histories, record).kind = "throw"
         THEN Answer("local", Null, Failure("local-error"))
         ELSE Answer("local", Null, Success)
    ELSE Answer("save", Null, NoResult)

\* a row of the remote consent relation
Row(id, from) == [id |-> id, from |-> from]
RowIds(rows) == {r.id : r \in rows}

\* .insert([consentRecord]): the id is the primary key
SaveOutcomes(record) ==
    (IF record \in RowIds(consentRows) THEN {"conflict"} ELSE {"ok"}) \cup {"error", "throw"}

\* a variant of Upsert with ignoreDuplicates: false
Upsert_Overwrites(rows, items) ==
    {r \in rows : r.id \notin items} \cup {Row(i, "upsert") : i \in items}

\* .upsert(histories, { onConflict: 'id', ignoreDuplicates: true }) answered with
\* success: the records whose id the relation lacks are added
Upsert(rows, items) == rows \cup {Row(i, "upsert") : i \in items \ RowIds(rows)}

\* saveConsentHistory after the insert answered
AfterSaveConsentHistory(o) ==
    IF o = "ok" THEN Answer("return", Null, Success)
    ELSE Answer("return", Null, Failure("save-error"))

\* syncConsentHistories up to its upsert
SyncConsentHistoriesEntry ==
    IF ~supabase THEN Answer("return", "false", NoResult)
    ELSE IF isLocalMode THEN Answer("return", "true", NoResult)
    ELSE IF consent_histories.kind = "absent" THEN Answer("return", "true", NoResult)
    ELSE IF consent_histories.kind = "malformed" THEN Answer("return", "false", NoResult)
    ELSE IF consent_histories.kind = "notlist" \/ consent_histories.items = {}
         THEN Answer("return", "true", NoResult)
    ELSE Answer("upsert", Null, NoResult)

\* syncConsentHistories after the upsert answered
AfterSyncConsentHistories(o) ==
    IF o = "ok" THEN Answer("return", "true", NoResult) ELSE Answer("return", "false", NoResult)

\* syncConsentHistoriesToLocal up to its select
SyncConsentHistoriesToLocalEntry ==
    IF ~supabase THEN Answer("return", "false", NoResult)
    ELSE IF isLocalMode THEN Answer("return", "true", NoResult)
    ELSE Answer("fetch", Null, NoResult)

\* syncConsentHistoriesToLocal after the select answered
AfterSyncConsentHistoriesToLocal(o) ==
    IF o = "ok" THEN Answer("return", "true", NoResult) ELSE Answer("return", "false", NoResult)

\* a gateway function is called: it runs to its first await or to its return
GatewayBegin(fn, e, args) ==
    /\ gateway.pc \in {"idle", "return"}
    /\ gatewayCalls < MaxGatewayCalls
    /\ gatewayCalls' = gatewayCalls + 1
    /\ gateway' = [NoGateway EXCEPT
                     !.fn = fn, !.pc = IF e.pc = "local" THEN "return" ELSE e.pc,
                     !.value = e.value, !.res = e.res,
                     !.selects = IF e.pc = "lookup" THEN 1 ELSE 0,
                     !.query = IF e.pc = "select" THEN SelectQuery(fn) ELSE NoQuery,
                     !.remote = IF Pending(e.pc) /\ e.pc # "local" THEN 1 ELSE 0,
                     !.before = IF gateway.fn = "createOrGetUser" /\ gateway.pc = "return"
                                THEN gateway.value ELSE Null,
                     !.again = gateway.fn = fn /\ gateway.pc = "return"
                               /\ gateway.answer = "ok",
                     !.total = args.total, !.record = args.record, !.row = args.row,
                     !.userId = args.userId,
                     !.user_id = IF e.pc = "bulk" THEN FormatUserId(args.userId) ELSE Null]
    /\ UNCHANGED <<gatewayFrame, users, consentRows, messages, diary_entries>>

GatewayCall(fn, e) ==
    /\ GatewayBegin(fn, Answer(e.pc, e.value, NoResult), NoArgs)
    /\ UNCHANGED consent_histories

createOrGetUser == GatewayCall("createOrGetUser", CreateOrGetUserEntry)

getUserId == GatewayCall("getUserId", GetUserIdEntry)

\* diaryService.syncDiaries(userId, diaries) called with a batch of n records
syncDiaries ==
    \E userId \in {Null, "", LOCAL_USER_ID, RemoteId} : \E n \in 0..MaxEntries :
        LET e == SyncDiariesEntry(userId) IN
        /\ GatewayBegin("syncDiaries", Answer(e.pc, Null, e.res),
                        [NoArgs EXCEPT !.total = n, !.userId = userId])
        /\ UNCHANGED consent_histories

getUserDiaries == GatewayCall("getUserDiaries", GetUserDiariesEntry)

getChatMessages == GatewayCall("getChatMessages", GetChatMessagesEntry)

sendMessage ==
    \E senderId \in {"undefined", "user-1"} : \E counselorId \in {"undefined", "", "counselor-1"} :
        /\ GatewayBegin("sendMessage", SendMessageEntry,
                        [NoArgs EXCEPT !.row = MessageRow(senderId, counselorId)])
        /\ UNCHANGED consent_histories

saveConsentHistory ==
    \E record \in ConsentIds :
        LET e == SaveConsentHistoryEntry(record) IN
        /\ GatewayBegin("saveConsentHistory", e, [NoArgs EXCEPT !.record = record])
        /\ consent_histories' =
              IF e.pc = "local" /\ e.res.success
              THEN PushLocally(consent_histories, record) ELSE consent_histories

getAllConsentHistories == GatewayCall("getAllConsentHistories", GetAllConsentHistoriesEntry)

syncConsentHistories == GatewayCall("syncConsentHistories", SyncConsentHistoriesEntry)

syncConsentHistoriesToLocal ==
    GatewayCall("syncConsentHistoriesToLocal", SyncConsentHistoriesToLocalEntry)

\* the call in flight goes on after an answer o of the remote
GatewayAdvance(a, o) ==
    /\ gateway' = [gateway EXCEPT !.pc = a.pc, !.value = a.value, !.res = a.res,
                                  !.inserts = IF a.pc = "insert" THEN @ + 1 ELSE @,
                                  !.remote = IF Pending(a.pc) THEN @ + 1 ELSE @,
                                  !.lookup = IF gateway.pc = "lookup" THEN o ELSE @,
                                  !.answer = IF gateway.pc \in {"select", "upsert"} THEN o ELSE @,
                                  !.idx = IF a.pc = "single" THEN @ + 1 ELSE @,
                                  !.successCount = IF gateway.pc = "single"
                                                   THEN CountSingle(@, o) ELSE @]
    /\ UNCHANGED <<gatewayFrame, gatewayCalls>>

GatewayStep(a, o) ==
    /\ GatewayAdvance(Answer(a.pc, a.value, NoResult), o)
    /\ UNCHANGED <<remoteVars, diary_entries>>

GatewayLookupResponse ==
    \E o \in LookupOutcomes :
        /\ gateway.pc = "lookup"
        /\ GatewayStep(IF gateway.fn = "getUserId" THEN AfterGetUserId(o) ELSE AfterLookup(o), o)
        /\ UNCHANGED users

GatewayInsertResponse ==
    \E o \in InsertOutcomes :
        /\ gateway.pc = "insert"
        /\ users' = (users \/ o = "ok")
        /\ GatewayStep(AfterInsert(o), o)

\* the bulk upsert of a direct syncDiaries call answers
GatewayBulkResponse ==
    \E o \in UpsertOutcomes :
        /\ gateway.pc = "bulk"
        /\ LET a == AfterBulk(o, gateway.total) IN GatewayAdvance(Answer(a.pc, Null, a.res), o)
        /\ UNCHANGED <<users, remoteVars, diary_entries>>

\* a per-record upsert of a direct syncDiaries call answers
GatewaySingleResponse ==
    \E o \in UpsertOutcomes :
        /\ gateway.pc = "single"
        /\ LET a == AfterSingle(gateway.idx, CountSingle(gateway.successCount, o), gateway.total)
           IN GatewayAdvance(Answer(a.pc, Null, a.res), o)
        /\ UNCHANGED <<users, remoteVars, diary_entries>>

\* the select of getUserDiaries, getChatMessages or getAllConsentHistories answers
GatewaySelectResponse ==
    \E o \in RemoteOutcomes :
        /\ gateway.pc = "select"
        /\ GatewayAdvance(AfterSelect(o), o)
        /\ UNCHANGED <<users, remoteVars, diary_entries>>

\* the insert of sendMessage answers
GatewaySendResponse ==
    \E o \in SendOutcomes(gateway.row) :
        /\ gateway.pc = "send"
        /\ messages' = IF o = "ok" THEN messages \cup {gateway.row} ELSE messages
        /\ GatewayAdvance(AfterSendMessage(o), o)
        /\ UNCHANGED <<users, consent_histories, consentRows, diary_entries>>

\* the insert of saveConsentHistory answers
GatewaySaveResponse ==
    \E o \in SaveOutcomes(gateway.record) :
        /\ gateway.pc = "save"
        /\ consentRows' = IF o = "ok" THEN consentRows \cup {Row(gateway.record, "insert")}
                          ELSE consentRows
        /\ GatewayAdvance(AfterSaveConsentHistory(o), o)
        /\ UNCHANGED <<users, consent_histories, messages, diary_entries>>

\* the upsert of syncConsentHistories answers: existing ids are left as they are
GatewayUpsertResponse ==
    \E o \in RemoteOutcomes :
        /\ gateway.pc = "upsert"
        /\ consentRows' = IF o = "ok" THEN Upsert(consentRows, consent_histories.items)
                          ELSE consentRows
        /\ GatewayAdvance(AfterSyncConsentHistories(o), o)
        /\ UNCHANGED <<users, consent_histories, messages, diary_entries>>

\* the select of syncConsentHistoriesToLocal answers: the rows replace the local key
GatewayFetchResponse ==
    \E o \in RemoteOutcomes :
        /\ gateway.pc = "fetch"
        /\ consent_histories' = IF o = "ok" THEN Histories("list", RowIds(consentRows))
                                ELSE consent_histories
        /\ GatewayAdvance(AfterSyncConsentHistoriesToLocal(o), o)
        /\ UNCHANGED <<users, consentRows, messages, diary_entries>>

GatewayNext ==
    \/ createOrGetUser
    \/ getUserId
    \/ syncDiaries
    \/ getUserDiaries
    \/ getChatMessages
    \/ sendMessage
    \/ saveConsentHistory
    \/ getAllConsentHistories
    \/ syncConsentHistories
    \/ syncConsentHistoriesToLocal
    \/ GatewayLookupResponse
    \/ GatewayInsertResponse
    \/ GatewayBulkResponse
    \/ GatewaySingleResponse
    \/ GatewaySelectResponse
    \/ GatewaySendResponse
    \/ GatewaySaveResponse
    \/ GatewayUpsertResponse
    \/ GatewayFetchResponse

GatewaySpec == GatewayInit /\ [][GatewayNext]_vars
(***************************************************************************)
(* createOrGetUser called by several callers at once (the initializeUser   *)
(* of the hooks and syncData call it without waiting for one another):     *)
(* each call runs to its next await, and the remote answers the calls in   *)
(* any order.                                                              *)
(***************************************************************************)
ConcurrentInit ==
    /\ isLocalMode \in BOOLEAN
    /\ credentials \in BOOLEAN
    /\ deviceUser = Username
    /\ lineUsernameKey = Username
    /\ journalEntries = [kind |-> "absent", items |-> <<>>]
    /\ isAutoSyncEnabled = TRUE
    /\ users \in BOOLEAN
    /\ Unmounted
    /\ NoCalls
    /\ NoRemote
    /\ NoEntry
    /\ NoBackup

resolverFrame == <<config, hookVars, gateway, gatewayCalls, lastOp, lastDone, remoteVars,
                   normalizeVars, backupVars, diary_entries>>

\* caller c calls createOrGetUser(Username)
ConcurrentCall ==
    \E c \in Callers :
        /\ calls[c].pc = "idle"
        /\ LET e == CreateOrGetUserEntry IN
           calls' = [calls EXCEPT ![c].pc = e.pc, ![c].value = e.value]
        /\ UNCHANGED <<resolverFrame, users>>

\* the lookup of caller c answers
ConcurrentLookupResponse ==
    \E c \in Callers : \E o \in LookupOutcomes :
        /\ calls[c].pc = "lookup"
        /\ LET a == AfterLookup(o) IN
           calls' = [calls EXCEPT ![c].pc = a.pc, ![c].value = a.value, ![c].lookup = o]
        /\ UNCHANGED <<resolverFrame, users>>

\* the insert of caller c answers
ConcurrentInsertResponse ==
    \E c \in Callers : \E o \in InsertOutcomes :
        /\ calls[c].pc = "insert"
        /\ users' = (users \/ o = "ok")
        /\ LET a == AfterInsert(o) IN
           calls' = [calls EXCEPT ![c].pc = a.pc, ![c].value = a.value, ![c].insert = o]
        /\ UNCHANGED <<resolverFrame>>

ConcurrentNext ==
    \/ ConcurrentCall
    \/ ConcurrentLookupResponse
    \/ ConcurrentInsertResponse

ConcurrentSpec == ConcurrentInit /\ [][ConcurrentNext]_vars
(***************************************************************************)
(* The score fields of one local diary record on their way to the remote:  *)
(* the entries.map of syncData (in the hook and in its older version) and  *)
(* then the diaries.map of syncDiaries.                                    *)
(***************************************************************************)
\* Number(v)
ToNumber(v) ==
    IF v.t \in {"number", "string"} THEN Num(v.n)
    ELSE IF v.t = "null" THEN Num(0)
    ELSE NotANumber

\* v || d
Or(v, d) == IF v \in {Undefined, JsNull, NotANumber, Num(0)} THEN d ELSE v

\* the canonical field, or the legacy one when the canonical is undefined
Pick(canonical, legacy) ==
    IF canonical = Undefined /\ legacy # Undefined THEN legacy ELSE canonical

\* if (score === undefined || score === null) score = 50
Default(score) == IF score \in {Undefined, JsNull} THEN Num(DefaultScore) ELSE score

\* entries.map(entry => ...) of syncData
MapEntry(e) ==
    LET selfEsteemScore == ToNumber(Default(Pick(e.self_esteem_score, e.selfEsteemScore)))
        worthlessnessScore == ToNumber(Default(Pick(e.worthlessness_score, e.worthlessnessScore)))
    IN [version |-> "part_000",
        self_esteem_score |-> selfEsteemScore, worthlessness_score |-> worthlessnessScore,
        selfEsteemScore |-> selfEsteemScore, worthlessnessScore |-> worthlessnessScore]

\* entries.map(entry => ...) of the older syncData
MapEntryOlder(e) ==
    [version |-> "useAutoSync.ts",
     self_esteem_score |-> Or(e.selfEsteemScore, Num(DefaultScore)),
     worthlessness_score |-> Or(e.worthlessnessScore, Num(DefaultScore)),
     selfEsteemScore |-> Undefined, worthlessnessScore |-> Undefined]

\* diaries.map(diary => ...) of syncDiaries: the scores of a row
FormatDiary(d) ==
    [sent |-> TRUE,
     self_esteem_score |-> Default(Pick(d.self_esteem_score, d.selfEsteemScore)),
     worthlessness_score |-> Default(Pick(d.worthlessness_score, d.worthlessnessScore))]

NormalizeInit ==
    /\ isLocalMode = FALSE
    /\ credentials = TRUE
    /\ deviceUser = Username
    /\ lineUsernameKey = Username
    /\ journalEntries = [kind |-> "list", items |-> Batch(1)]
    /\ isAutoSyncEnabled = TRUE
    /\ users = TRUE
    /\ Unmounted
    /\ NoCalls
    /\ NoRemote
    /\ entry \in [{"self_esteem_score", "worthlessness_score", "selfEsteemScore",
                    "worthlessnessScore"} -> ScoreValues]
    /\ normalized = NoRecord
    /\ formatted = NoFormatted
    /\ NoIds
    /\ NoBackup

normalizeFrame == <<config, hookVars, gateway, gatewayCalls, users, lastOp, lastDone,
                    resolverVars, remoteVars, backupVars, diary_entries>>

\* the hook normalizes the record
Normalize ==
    /\ normalized.version = "none"
    /\ normalized' = MapEntry(entry)
    /\ UNCHANGED <<normalizeFrame, entry, formatted, idVars, cleanup>>

\* the older hook normalizes the record
NormalizeOlder ==
    /\ normalized.version = "none"
    /\ normalized' = MapEntryOlder(entry)
    /\ UNCHANGED <<normalizeFrame, entry, formatted, idVars, cleanup>>

\* syncDiaries formats the normalized record
Format ==
    /\ normalized.version # "none"
    /\ ~formatted.sent
    /\ formatted' = FormatDiary(normalized)
    /\ UNCHANGED <<normalizeFrame, entry, normalized, idVars, cleanup>>

NormalizeNext ==
    \/ Normalize
    \/ NormalizeOlder
    \/ Format

NormalizeSpec == NormalizeInit /\ [][NormalizeNext]_vars

(***************************************************************************)
(* The identifiers of the rows of one batch.  diaries.map runs without an  *)
(* await; Date.now() reads a millisecond clock, which may or may not have  *)
(* advanced between two records.  The records that have an id have         *)
(* different ids.                                                          *)
(***************************************************************************)
NoId == 0
\* the id of a row: the one of the record, or the decimal string of a clock reading
Given(id) == [from |-> "diary.id", n |-> id]
Generated(t) == [from |-> "Date.now()", n |-> t]

\* id: diary.id || Date.now().toString()
FormatId(id, t) == IF id # NoId THEN Given(id) ELSE Generated(t)

\* record k of a batch has the id k, or none
BatchesWithIds ==
    {[k \in 1..n |-> IF k \in S THEN k ELSE NoId] : n \in 0..MaxBatch, S \in SUBSET (1..MaxBatch)}

IdInit ==
    /\ isLocalMode = FALSE
    /\ credentials = TRUE
    /\ deviceUser = Username
    /\ lineUsernameKey = Username
    /\ journalEntries = [kind |-> "absent", items |-> <<>>]
    /\ isAutoSyncEnabled = TRUE
    /\ users = TRUE
    /\ Unmounted
    /\ NoCalls
    /\ NoRemote
    /\ entry = NoScores
    /\ normalized = NoRecord
    /\ formatted = NoFormatted
    /\ diaries \in BatchesWithIds
    /\ formattedDiaries = <<>>
    /\ now = 1
    /\ cleanup = NoCleanup
    /\ NoBackup

\* the callback of diaries.map builds the row of the next record
FormatNext ==
    /\ Len(formattedDiaries) < Len(diaries)
    /\ \E t \in now..MaxClock :
          /\ now' = t
          /\ formattedDiaries' =
                Append(formattedDiaries, FormatId(diaries[Len(formattedDiaries) + 1], t))
    /\ UNCHANGED <<normalizeFrame, entry, normalized, formatted, diaries, cleanup>>

IdNext == FormatNext

IdSpec == IdInit /\ [][IdNext]_vars

(***************************************************************************)
(* cleanupTestData over a local collection whose records were synchronized *)
(* to the remote relation.  A text is absent or empty, or holds one word:  *)
(* a word that is no keyword, or one of the keywords, the Latin ones in    *)
(* lower case or in upper case.                                            *)
(***************************************************************************)
Word(word, upper) == [word |-> word, upper |-> upper]
NoText == Word("none", FALSE)
Plain == Word("plain", FALSE)
EventTexts ==
    {NoText, Plain, Word("テスト", FALSE), Word("サンプル", FALSE)}
    \cup {Word(w, u) : w \in {"example", "test"}, u \in BOOLEAN}
RealizationTexts == {NoText, Plain, Word("テスト", FALSE), Word("test", FALSE)}

\* text.includes(keyword): the characters of the keyword as they are
Includes(text, keyword) == text.word = keyword /\ ~text.upper

\* the text in lower case
Lower(text) == Word(text.word, FALSE)

\* column.ilike.%keyword%: the match of PostgreSQL that ignores case; the
\* keywords of the filter are in lower case
ILike(text, keyword) == Includes(Lower(text), keyword)

\* isTestData of the filter callback: entry.event && entry.event.includes(...) || ...
IsTestData(e) ==
    \/ \E k \in {"テスト", "サンプル", "example", "test"} : Includes(e.event, k)
    \/ \E k \in {"テスト", "サンプル"} : Includes(e.realization, k)

\* .or('event.ilike.%テスト%,...,realization.ilike.%サンプル%')
RemoteFilter(e) ==
    \/ \E k \in {"テスト", "サンプル", "example", "test"} : ILike(e.event, k)
    \/ \E k \in {"テスト", "サンプル"} : ILike(e.realization, k)

RealEntry(e) == ~IsTestData(e)

\* the records of a collection: record k has the id k
CleanupEntries ==
    UNION {[1..n -> [event : EventTexts, realization : RealizationTexts]]
             : n \in 0..MaxEntries}
WithIds(es) == [k \in 1..Len(es) |-> [id |-> k, event |-> es[k].event,
                                       realization |-> es[k].realization]]

CleanupInit ==
    /\ isLocalMode = FALSE
    /\ credentials \in BOOLEAN
    /\ deviceUser = Username
    /\ lineUsernameKey = Username
    /\ journalEntries \in
          {[kind |-> k, items |-> <<>>] : k \in {"absent", "malformed", "notlist"}}
          \cup {[kind |-> "list", items |-> WithIds(es)] : es \in CleanupEntries}
    /\ isAutoSyncEnabled = TRUE
    /\ users = TRUE
    /\ Unmounted
    /\ NoCalls
    /\ consent_histories = Histories("absent", {})
    /\ consentRows = {}
    /\ messages = {}
    /\ diary_entries = Range(journalEntries.items)
    /\ NoEntry
    /\ NoBackup

cleanupFrame == <<settings, hookVars, gateway, gatewayCalls, users, lastOp, lastDone,
                  resolverVars, remoteVars, backupVars, entry, normalized, formatted, idVars>>

\* cleanupTestData() up to its await: the local collection is filtered and
\* stored; a collection that is no JSON or no list throws into the outer catch
cleanupTestData ==
    /\ cleanup.pc = "idle"
    /\ IF journalEntries.kind \in {"malformed", "notlist"}
       THEN /\ cleanup' = [cleanup EXCEPT !.pc = "return", !.success = FALSE]
            /\ UNCHANGED journalEntries
       ELSE LET entries == journalEntries.items
                realEntries == SelectSeq(entries, RealEntry)
                listed == journalEntries.kind = "list"
            IN /\ journalEntries' = IF listed THEN [kind |-> "list", items |-> realEntries]
                                     ELSE journalEntries
               /\ cleanup' = [cleanup EXCEPT
                                !.pc = IF supabase THEN "delete" ELSE "return",
                                !.parsed = listed,
                                !.entries = entries,
                                !.localRemoved = Len(entries) - Len(realEntries),
                                !.success = TRUE]
    /\ UNCHANGED <<cleanupFrame, diary_entries>>

\* the delete answers: with success the rows that match are gone and counted
CleanupDeleteResponse ==
    \E o \in RemoteOutcomes :
        /\ cleanup.pc = "delete"
        /\ LET deleted == {r \in diary_entries : RemoteFilter(r)} IN
           /\ diary_entries' = IF o = "ok" THEN diary_entries \ deleted ELSE diary_entries
           /\ cleanup' = [cleanup EXCEPT
                            !.pc = "return", !.answer = o,
                            !.supabaseRemoved = IF o = "ok" THEN Cardinality(deleted) ELSE 0]
        /\ UNCHANGED <<cleanupFrame, journalEntries>>

CleanupNext ==
    \/ cleanupTestData
    \/ CleanupDeleteResponse

CleanupSpec == CleanupInit /\ [][CleanupNext]_vars
(***************************************************************************)
(* The Backup/Restore Controller AdminBackupRestore over the local         *)
(* namespace.  handleCreateFullBackup snapshots the namespace and, with a  *)
(* client, awaits the reads of the remote relations: nothing local is read *)
(* or written between those reads, so they answer in one step.             *)
(* handleRestoreFromBackup starts a FileReader, whose onload handler does  *)
(* the restore in one synchronous run.  A confirmation that is declined    *)
(* changes nothing and is left out.                                        *)
(***************************************************************************)
\* whether JSON.parse(text) returns
Parses(text) == text.form \in {"list", "atom", "quoted"}

\* JSON.parse(text), for a text that parses
Parse(text) ==
    IF text.form = "quoted"
    THEN Value("string", IF text.n = 0 THEN Empty ELSE Raw(text.n))
    ELSE Value(text.form, Stored(text.form, text.n, FALSE))

\* JSON.stringify(value)
Stringify(v) ==
    IF v.type = "string" THEN Quoted(v.text.n) ELSE v.text

\* what the backup holds for a key: nothing for a missing or empty value, the
\* parsed value when the string parses, else the string
ExportValue(text) ==
    IF text \in {Absent, Empty} THEN NoValue
    ELSE IF Parses(text) THEN Parse(text)
    ELSE Value("string", text)

\* the localStorage section of the backup of namespace ls
ExportSection(ls) == [k \in Keys |-> ExportValue(ls[k])]

\* metadata.creator: localStorage.getItem('current_counselor') || 'admin'
Creator(ls) == IF ls["current_counselor"] \in {Absent, Empty} THEN "admin" ELSE "counselor"

\* backupData after the loop over the namespace
Snapshot(ls) == File("document", "ok", Creator(ls), TRUE, ExportSection(ls), "null")

\* a variant of RestoreValue that writes every value through JSON.stringify
RestoreValue_AlwaysStringifies(v) == Stringify(v)

\* what restore writes for a value of the backup: a string as it is, any other
\* value through JSON.stringify
RestoreValue(v) == IF v.type = "string" THEN v.text ELSE Stringify(v)

\* a variant of Preserved that keeps nothing
Preserved_Nothing(ls, k) == Absent

\* preservedData[k] of the keys to preserve, Absent for every other key
Preserved(ls, k) ==
    IF k = "current_counselor" /\ ls[k] \notin {Absent, Empty} THEN ls[k] ELSE Absent

\* a variant of RestoreNamespace without localStorage.clear()
RestoreNamespace_NoClear(ls, section) ==
    [k \in Keys |-> IF section[k].type # "absent" THEN RestoreValue(section[k]) ELSE ls[k]]

\* the namespace after clear(), the preserved keys and the keys of the backup
RestoreNamespace(ls, section) ==
    [k \in Keys |->
        IF section[k].type # "absent" THEN RestoreValue(section[k]) ELSE Preserved(ls, k)]

\* a variant of Valid that asks for metadata only
Valid_MetadataOnly(file) == file.kind = "document" /\ file.metadata # "absent"

\* JSON.parse returned and backupData.metadata.version is there
Valid(file) == file.kind = "document" /\ file.metadata = "ok"

\* JSON.stringify(JSON.parse(text)) where the text parses, else the text
Reserialized(text) == IF Parses(text) THEN Stringify(Parse(text)) ELSE text

\* the values a device holds under 'journalEntries': the collection as the
\* application writes it, or a string that is no JSON
DiaryValues == {Absent, Raw(1)} \cup {List(n, sp) : n \in 0..MaxEntries, sp \in BOOLEAN}

\* the values of 'current_counselor': a counselor's name
MarkerValues == {Absent, Raw(1)}

\* the values of 'line-username'
UsernameValues == {Absent, Empty, Quoted(1)}

\* the files a user can choose besides the one just downloaded: a file that is
\* no JSON, documents without metadata or without version, and valid documents
UserSections ==
    {[k \in Keys |-> IF k = "journalEntries" THEN je
                     ELSE IF k = "current_counselor" THEN cc ELSE un] :
        je \in {NoValue, Value("list", List(1, FALSE))},
        cc \in {NoValue, Value("string", Raw(2))},
        un \in {NoValue, Value("atom", Atom(1))}}
FullSection ==
    [k \in Keys |-> IF k = "journalEntries" THEN Value("list", List(1, FALSE))
                    ELSE IF k = "current_counselor" THEN Value("string", Raw(2))
                    ELSE Value("atom", Atom(1))]
UserFiles ==
    {File("invalid", "absent", "admin", FALSE, NoSection, "null"),
     File("document", "absent", "admin", TRUE, FullSection, "null"),
     File("document", "noversion", "admin", TRUE, FullSection, "null"),
     File("document", "ok", "admin", FALSE, NoSection, "data")}
    \cup {File("document", "ok", "admin", TRUE, sec, sd) :
            sec \in UserSections, sd \in {"null", "data"}}

BackupInit ==
    /\ isLocalMode = FALSE
    /\ credentials \in BOOLEAN
    /\ deviceUser = Username
    /\ lineUsernameKey = Username
    /\ journalEntries = [kind |-> "absent", items |-> <<>>]
    /\ isAutoSyncEnabled = TRUE
    /\ users = TRUE
    /\ Unmounted
    /\ NoCalls
    /\ consent_histories = Histories("absent", {})
    /\ consentRows = {[id |-> 1, from |-> "insert"]}
    /\ messages = {}
    /\ diary_entries = {}
    /\ NoEntry
    /\ \E je \in DiaryValues : \E cc \in MarkerValues : \E un \in UsernameValues :
          localStorage = [k \in Keys |-> IF k = "journalEntries" THEN je
                                         ELSE IF k = "current_counselor" THEN cc ELSE un]
    /\ backupFile = NoFile
    /\ backupInProgress = FALSE
    /\ restoreInProgress = FALSE
    /\ status = "null"
    /\ backupData = NoFile
    /\ download = NoFile
    /\ reading = NoFile
    /\ reloadScheduled = FALSE
    /\ backupOps = 0
    /\ loaded = NoFile
    /\ before = NoKeys

backupFrame == <<config, hookVars, gateway, gatewayCalls, users, lastOp, lastDone,
                 resolverVars, remoteVars, normalizeVars, diary_entries>>

\* one more use of the panel; the last step was not an onload
Use ==
    /\ backupOps < MaxBackupOps
    /\ backupOps' = backupOps + 1
    /\ loaded' = NoFile
    /\ before' = NoKeys

NoUse ==
    /\ loaded' = NoFile
    /\ before' = NoKeys
    /\ UNCHANGED backupOps

\* the backup button, enabled while no backup is in progress
handleCreateFullBackup ==
    /\ ~backupInProgress
    /\ Use
    /\ IF supabase /\ ~isLocalMode
       THEN /\ backupInProgress' = TRUE
            /\ status' = "null"
            /\ backupData' = Snapshot(localStorage)
            /\ UNCHANGED download
       ELSE /\ backupInProgress' = FALSE
            /\ status' = "success"
            /\ download' = Snapshot(localStorage)
            /\ UNCHANGED backupData
    /\ UNCHANGED <<backupFrame, localStorage, backupFile, restoreInProgress, reading,
                   reloadScheduled>>

\* the reads of the remote relations answered, or one of them raised
BackupReadResponse ==
    \E o \in {"data", "error"} :
        /\ backupData # NoFile
        /\ NoUse
        /\ download' = [backupData EXCEPT !.supabaseData = o]
        /\ backupData' = NoFile
        /\ backupInProgress' = FALSE
        /\ status' = "success"
        /\ UNCHANGED <<backupFrame, localStorage, backupFile, restoreInProgress, reading,
                       reloadScheduled>>

\* the file input: a file of the user, or the document just downloaded
handleFileChange ==
    \E file \in UserFiles \cup ({download} \ {NoFile}) :
        /\ Use
        /\ backupFile' = file
        /\ status' = "null"
        /\ UNCHANGED <<backupFrame, localStorage, backupInProgress, restoreInProgress,
                       backupData, download, reading, reloadScheduled>>

\* the restore button, enabled with a file and while no restore is in progress;
\* the user confirms
handleRestoreFromBackup ==
    /\ backupFile # NoFile
    /\ ~restoreInProgress
    /\ Use
    /\ restoreInProgress' = TRUE
    /\ status' = "null"
    /\ reading' = backupFile
    /\ UNCHANGED <<backupFrame, localStorage, backupFile, backupInProgress, backupData,
                   download, reloadScheduled>>

\* a variant of RestoreRemote that upserts the remote part of the backup
RestoreRemote_WritesBack(file, rows) ==
    IF file.supabaseData = "data" /\ supabase /\ ~isLocalMode
    THEN rows \cup {[id |-> i, from |-> "upsert"] : i \in ConsentIds} ELSE rows

\* the rows of a remote relation after the remote part of the restore: with a
\* client, the record counts of backupData.supabaseData are logged and no
\* remote call is made
RestoreRemote(file, rows) == rows

\* fileReader.onload
FileReaderLoad ==
    /\ reading # NoFile
    /\ loaded' = reading
    /\ before' = localStorage
    /\ reading' = NoFile
    /\ IF Valid(reading)
       THEN /\ localStorage' = IF reading.hasSection
                                THEN RestoreNamespace(localStorage, reading.section)
                                ELSE localStorage
            /\ consentRows' = RestoreRemote(reading, consentRows)
            /\ status' = "success"
            /\ reloadScheduled' = TRUE
            /\ UNCHANGED restoreInProgress
       ELSE /\ status' = "failure"
            /\ restoreInProgress' = FALSE
            /\ UNCHANGED <<localStorage, consentRows, reloadScheduled>>
    /\ UNCHANGED <<config, hookVars, gateway, gatewayCalls, users, lastOp, lastDone,
                   resolverVars, normalizeVars, consent_histories, messages,
                   diary_entries>>
    /\ UNCHANGED <<backupFile, backupInProgress, backupData, download, backupOps>>

\* fileReader.onerror
FileReaderError ==
    /\ reading # NoFile
    /\ NoUse
    /\ reading' = NoFile
    /\ status' = "failure"
    /\ restoreInProgress' = FALSE
    /\ UNCHANGED <<backupFrame, localStorage, backupFile, backupInProgress, backupData,
                   download, reloadScheduled>>

\* window.location.reload(), five seconds after a restore: the panel starts anew
Reload ==
    /\ reloadScheduled
    /\ NoUse
    /\ reloadScheduled' = FALSE
    /\ backupFile' = NoFile
    /\ backupInProgress' = FALSE
    /\ restoreInProgress' = FALSE
    /\ status' = "null"
    /\ backupData' = NoFile
    /\ reading' = NoFile
    /\ UNCHANGED <<backupFrame, localStorage, download>>

BackupNext ==
    \/ handleCreateFullBackup
    \/ BackupReadResponse
    \/ handleFileChange
    \/ handleRestoreFromBackup
    \/ FileReaderLoad
    \/ FileReaderError
    \/ Reload

BackupSpec == BackupInit /\ [][BackupNext]_vars
(***************************************************************************)
(* Properties.                                                             *)
(***************************************************************************)
Items == journalEntries.items

\* C1: at most one sync pass is in flight in every reachable state.
\* Violated: a timeout scheduled in an earlier render calls a syncData whose
\* closure still holds isSyncing = false while a pass is in flight.
C1_SingleFlight == Len(passes) <= 1

\* C2: a manual sync request issued while a pass is executing is a no-op: the
\* request handlers of the current render skip whenever a pass is in flight, and
\* a manual request handled during a pass started nothing and returned false.
\* Violated: once a second, overlapping pass (C1) has ended, isSyncing is false
\* while the first pass is still in flight.
C2_RequestDuringPassIsNoOp ==
    /\ passes # <<>> => SyncDataSkips(Closure(isSyncing, currentUser))
    /\ lastOp.op = "manual" /\ lastOp.duringPass =>
          ~lastOp.started /\ lastOp.returned \in {"false", "none"}

\* C3: 'last_sync_time' is written in a step if and only if a sync pass ended in
\* that step returning true.
C3_TimestampIffSuccess ==
    [][(last_sync_time' # last_sync_time) <=> (lastDone'.ended /\ lastDone'.result)]_vars

\* a pass ended in partial success after an earlier write of the timestamp
C3_Witness ==
    lastDone.ended /\ lastDone.result /\ lastDone.message /\ last_sync_time = 2

\* C4: every pass that ends returning false ends with an error message recorded.
\* Violated: with no username, and when createOrGetUser returns null, syncData
\* returns false after setError(null) and never calls setError again.
C4_FailureRecordsError == lastDone.ended /\ ~lastDone.result => lastDone.error # Null

\* C5 as stated: whenever the bulk upsert fails, by a returned error or by a
\* raise, every record is then upserted once, in batch order, and the pass
\* succeeds exactly when one of them succeeded.
C5_FallbackOnAnyBulkFailure ==
    lastDone.ended /\ lastDone.bulk \in {"error", "throw"} =>
        /\ lastDone.attempted = Items
        /\ lastDone.result <=> lastDone.succeeded > 0

\* C5 amended: when the bulk upsert returns an error, every record is upserted
\* once, in batch order, whatever the earlier records did, and the pass succeeds
\* exactly when one of them succeeded; when the bulk upsert raises, no record is
\* upserted and the pass fails.
C5_FallbackOnBulkError ==
    /\ lastDone.ended /\ lastDone.bulk = "error" =>
          /\ lastDone.attempted = Items
          /\ lastDone.result <=> lastDone.succeeded > 0
    /\ lastDone.ended /\ lastDone.bulk = "throw" =>
          /\ lastDone.attempted = <<>>
          /\ ~lastDone.result
          /\ lastDone.error = "sync-throw"

\* the bulk upsert returned an error and both records were attempted though none succeeded
C5_Witness ==
    /\ lastDone.ended /\ lastDone.bulk = "error"
    /\ lastDone.attempted = <<1, 2>> /\ lastDone.succeeded = 0 /\ ~lastDone.result

\* C6: after the per-record fallback the count of the partial-success message is
\* the number of per-record upserts that succeeded, out of the batch size; when
\* all of them succeeded the pass succeeds with the batch size as count.
C6_CountEqualsSuccesses ==
    /\ lastDone.ended /\ lastDone.message =>
          /\ lastDone.bulk = "error"
          /\ lastDone.count = lastDone.succeeded
          /\ lastDone.total = Len(Items)
    /\ lastDone.ended /\ lastDone.bulk = "error" /\ Items # <<>>
          /\ lastDone.succeeded = Len(Items) =>
          lastDone.result /\ lastDone.message /\ lastDone.count = Len(Items)

\* the fallback of a batch of two ended with both records upserted
C6_Witness ==
    lastDone.ended /\ lastDone.bulk = "error" /\ lastDone.message /\ lastDone.count = 2

\* C7: a pass that reads a local collection of zero records, the key absent or
\* an empty list, returns true, writes the timestamp and issues no upsert.
\* Violated: an empty list is truthy as a string, so syncDiaries upserts [].
C7_EmptyCollectionNoRemoteWrite ==
    lastDone.ended /\ lastDone.userId # Null
        /\ journalEntries.kind \in {"absent", "list"} /\ Items = <<>> =>
        lastDone.result /\ lastDone.wrote /\ lastDone.bulkCalls = 0

\* C8 as stated: without a configured backend, or in local mode, a sync request
\* starts no pass and its result is success.
C8_UnconfiguredReportsSuccess ==
    ~supabase /\ lastOp.op # "none" /\ lastOp.returned # "none" =>
        ~lastOp.started /\ lastOp.returned = "true"

\* C8 amended: without a configured backend, or in local mode, a sync request
\* starts no pass and returns false; no pass is ever in flight, no remote call is
\* ever issued by the hook, no error message is recorded and the timestamp is
\* never written.
C8_UnconfiguredIsNoOp ==
    ~supabase =>
        /\ passes = <<>> /\ ~isSyncing /\ Total(started) = 0
        /\ initPc \in {"idle", "done"}
        /\ error = Null /\ last_sync_time = 0
        /\ ~lastOp.started /\ lastOp.returned \in {"false", "none"}

\* a direct triggerManualSync returned false with no backend configured
C8_Witness ==
    ~supabase /\ ~isLocalMode /\ lastOp.op = "manual" /\ lastOp.returned = "false"

\* C9: the startup timeout starts at most one pass and the catch-up timeout
\* starts at most one pass.
\* Violated: the effect that schedules them runs again whenever isSyncing or
\* currentUser changes, so every pass that ends schedules both again.
C9_DelayedSyncsAtMostOnce == started.startup <= 1 /\ started.catchup <= 1

\* C10: without a configured backend, createOrGetUser and getUserId return
\* 'local-user-id' and issue no remote call.
\* Violated: supabase is null whenever isLocalMode is true, so both return at
\* "if (!supabase) return null" and the local-mode branch is never reached.
C10_SentinelWhenNotConfigured ==
    ~supabase /\ gateway.pc = "return" =>
        gateway.value = LOCAL_USER_ID /\ gateway.selects = 0 /\ gateway.inserts = 0

\* C11: when the username lookup of createOrGetUser answers with an error other
\* than 'no row found', the call returns null and has issued no insert.
C11_LookupErrorReturnsNull ==
    gateway.fn = "createOrGetUser" /\ gateway.lookup = "error" =>
        gateway.pc = "return" /\ gateway.value = Null /\ gateway.inserts = 0

\* a createOrGetUser call whose lookup answered with such an error has returned
C11_Witness ==
    gateway.fn = "createOrGetUser" /\ gateway.lookup = "error" /\ gateway.pc = "return"

\* C12: a createOrGetUser call made after a createOrGetUser call that returned
\* the remote identifier never finds 'no row', never issues an insert, and
\* returns that same identifier once its lookup has answered with the row.
C12_SecondCallFindsRow ==
    gateway.fn = "createOrGetUser" /\ gateway.before = RemoteId =>
        /\ gateway.lookup # "PGRST116"
        /\ gateway.inserts = 0
        /\ gateway.lookup = "row" => gateway.pc = "return" /\ gateway.value = gateway.before

\* the second of two createOrGetUser calls returned the identifier of the first
C12_Witness ==
    /\ gateway.fn = "createOrGetUser" /\ gateway.before = RemoteId
    /\ gateway.lookup = "row"
    /\ gateway.pc = "return" /\ gateway.value = RemoteId /\ gateway.selects = 1

\* C13: whatever the interleaving of concurrent createOrGetUser calls, every
\* call that has returned without a remote fault (its lookup answered with the
\* row or with 'no row found', its insert, if any, was answered by the remote's
\* uniqueness rule) has returned the identifier of the one users row.
\* Violated: two calls both find no row; the first insert creates the row, the
\* second is refused by the UNIQUE constraint and that call returns null.
C13_ConcurrentCallsConverge ==
    \A c \in Callers :
        calls[c].pc = "return" /\ calls[c].lookup \in {"row", "PGRST116"}
            /\ calls[c].insert \in {"none", "ok", "conflict"} =>
            users /\ calls[c].value = RemoteId

\* the result every gateway function gives without a client
SafeDefault ==
    [createOrGetUser |-> gateway.value = Null,
     getUserId |-> gateway.value = Null,
     syncDiaries |-> ~gateway.res.success /\ gateway.res.error # Null,
     getUserDiaries |-> gateway.value = "[]",
     getChatMessages |-> gateway.value = "[]",
     sendMessage |-> gateway.value = Null,
     saveConsentHistory |-> ~gateway.res.success /\ gateway.res.error # Null,
     getAllConsentHistories |-> gateway.value = "[]",
     syncConsentHistories |-> gateway.value = "false",
     syncConsentHistoriesToLocal |-> gateway.value = "false"]

Numeric(v) == v.t \in {"number", "NaN"}

\* what C15 says of one score: canonical and legacy are its input fields, out
\* and alias the canonical and the legacy field of the normalized record
ScoreNormalized(canonical, legacy, out, alias) ==
    /\ Numeric(out) /\ Numeric(alias)
    /\ canonical = Undefined /\ legacy \notin {Undefined, JsNull} => out = ToNumber(legacy)
    /\ canonical \in {Undefined, JsNull} /\ legacy \in {Undefined, JsNull} =>
          out = Num(DefaultScore) /\ alias = Num(DefaultScore)

\* C15: the record syncData's normalization returns holds both spellings of
\* both scores, each a number; a score held only under the legacy name is the
\* canonical score of the result, and a score held under neither name is 50.
\* Violated by the older hook: its result has no legacy-named field, keeps a
\* string score a string, and turns a legacy score 0 into 50.
C15_NormalizationYieldsBothSpellings ==
    normalized.version # "none" =>
        /\ ScoreNormalized(entry.self_esteem_score, entry.selfEsteemScore,
                           normalized.self_esteem_score, normalized.selfEsteemScore)
        /\ ScoreNormalized(entry.worthlessness_score, entry.worthlessnessScore,
                           normalized.worthlessness_score, normalized.worthlessnessScore)
(***************************************************************************)
(* Backup and restore.                                                     *)
(***************************************************************************)
\* the last step was fileReader.onload, on a document the restore accepted
Restored == loaded # NoFile /\ Valid(loaded)

\* the local keys that hold a value
KeysOf(ls) == {k \in Keys : ls[k] # Absent}

\* C16: a restore from a document without metadata, or without
\* metadata.version, shows the failure status, clears restore-in-progress
\* and leaves the local namespace as it was before the attempt.
C16_RestoreWithoutVersionFails ==
    (loaded.kind = "document" /\ loaded.metadata # "ok") =>
        /\ status = "failure"
        /\ ~restoreInProgress
        /\ localStorage = before

\* a document with metadata but no version, whose section differs from the
\* namespace, was refused
C16_Witness ==
    /\ loaded.kind = "document"
    /\ loaded.metadata = "noversion"
    /\ loaded.hasSection
    /\ RestoreNamespace(before, loaded.section) # before
    /\ localStorage = before
    /\ status = "failure"

C19_RoundTripKeepsDiaries ==
    (/\ Restored
     /\ loaded = download
     /\ loaded.section = ExportSection(before)) =>
        Reserialized(localStorage["journalEntries"]) = Reserialized(before["journalEntries"])

\* the exported document was restored over a collection whose text was not
\* the one JSON.stringify gives
C19_Witness ==
    /\ Restored
    /\ loaded = download
    /\ loaded.section = ExportSection(before)
    /\ before["journalEntries"] = List(1, TRUE)
    /\ localStorage["journalEntries"] = List(1, FALSE)

\* the document handleCreateFullBackup has built from the namespace in this step
Taken == IF supabase /\ ~isLocalMode THEN backupData' ELSE download'

\* C20: the export holds every key present in the local namespace at export
\* time: the parsed value when the stored string parses as JSON, the string
\* otherwise.
C20_ExportHoldsEveryKey ==
    [][handleCreateFullBackup =>
          \A k \in KeysOf(localStorage) :
              Taken.section[k] = IF Parses(localStorage[k])
                                 THEN Parse(localStorage[k])
                                 ELSE Value("string", localStorage[k])]_vars

\* C21: a restore issues no write against a remote relation, whatever the
\* document, its supabaseData section and the client: the remote relations
\* are after the onload handler what they were before it.
C21_RestoreLeavesRemoteAlone ==
    [][loaded' # NoFile =>
          /\ consentRows' = consentRows
          /\ users' = users
          /\ messages' = messages]_vars

\* with a client, a backup holding remote data was restored over a remote
\* relation that has a row
C21_Witness ==
    /\ Restored
    /\ loaded.supabaseData = "data"
    /\ supabase /\ ~isLocalMode
    /\ status = "success"
    /\ consentRows # {}

\* C22: every message row sendMessage builds, whatever arguments are given or
\* omitted, has exactly one of sender_id and counselor_id set, and is_counselor
\* is true exactly when counselor_id is the one set.
\* Violated: with neither senderId nor counselorId the row has sender_id
\* undefined and counselor_id null.
C22_MessageRowHasOneSender ==
    gateway.fn = "sendMessage" /\ gateway.remote > 0 =>
        /\ IsSet(gateway.row.sender_id) # IsSet(gateway.row.counselor_id)
        /\ gateway.row.is_counselor <=> IsSet(gateway.row.counselor_id)

\* the order each of the three gateway reads is to return its rows in
ReadOrder ==
    [getUserDiaries |-> [order |-> "date", ascending |-> FALSE],
     getChatMessages |-> [order |-> "created_at", ascending |-> TRUE],
     getAllConsentHistories |-> [order |-> "consent_date", ascending |-> FALSE]]

\* C23: getUserDiaries, getChatMessages and getAllConsentHistories return,
\* once their select has answered: the empty collection when it answered with
\* an error or raised; else the rows of the select, which asked for them by
\* date descending, by created_at ascending and by consent_date descending.
C23_ReadsReturnRowsOrEmpty ==
    gateway.fn \in DOMAIN ReadOrder /\ gateway.answer # "none" =>
        /\ gateway.pc = "return"
        /\ gateway.answer \in {"error", "throw"} => gateway.value = "[]"
        /\ gateway.answer = "ok" =>
              /\ gateway.value = "rows"
              /\ gateway.query.from # "none"
              /\ gateway.query.order = ReadOrder[gateway.fn].order
              /\ gateway.query.ascending = ReadOrder[gateway.fn].ascending

\* getChatMessages returned the empty collection after its select raised
C23_Witness ==
    /\ gateway.fn = "getChatMessages"
    /\ gateway.answer = "throw"
    /\ gateway.pc = "return"
    /\ gateway.value = "[]"

C25_LocalConsentsAppendOnly ==
    [][consent_histories.kind = "list" =>
          /\ consent_histories'.kind = "list"
          /\ consent_histories.items \subseteq consent_histories'.items]_vars

\* C26: syncConsentHistories never writes the local consent collection, its
\* upsert leaves every row the remote relation has as it is, and run a second
\* time right after a run the remote answered with success, over the same
\* local collection, it leaves the remote relation as the first run left it.
C26_SyncConsentHistoriesIdempotent ==
    [][/\ gateway'.fn = "syncConsentHistories" => consent_histories' = consent_histories
       /\ gateway.fn = "syncConsentHistories" /\ gateway.pc = "upsert" =>
             /\ consentRows \subseteq consentRows'
             /\ RowIds(consentRows') \subseteq RowIds(consentRows) \cup consent_histories.items
             /\ gateway.again => consentRows' = consentRows]_vars

\* the second of two runs succeeded over a remote relation that holds a row
\* inserted before both and a row the first run added
C26_Witness ==
    /\ gateway.fn = "syncConsentHistories"
    /\ gateway.again
    /\ gateway.pc = "return" /\ gateway.answer = "ok"
    /\ consent_histories = Histories("list", ConsentIds)
    /\ \E r \in consentRows : r.from = "insert"
    /\ \E r \in consentRows : r.from = "upsert"

\* C27: the in-progress flag is true only while a pass is in flight, and,
\* every remote call being answered, whenever passes are in flight there
\* comes a state where none is: every pass leaves Syncing, by whatever path
\* it ends, and the flag does not stay true.
C27_EveryPassLeavesSyncing ==
    /\ [](isSyncing => passes # <<>>)
    /\ (passes # <<>>) ~> (passes = <<>> /\ ~isSyncing)

\* a pass that awaited the Identity Resolver ended on malformed local JSON
\* and the flag is false again
C27_Witness ==
    /\ lastDone.ended /\ ~lastDone.result
    /\ lastDone.error = "parse-error"
    /\ lastDone.resolved = "lookup"
    /\ passes = <<>> /\ ~isSyncing

\* a user id that is an identifier of the remote, not the sentinel
RemoteUser(userId) == userId \notin {Null, LOCAL_USER_ID}

\* C28: the steps of a pass come in this order.  A pass that has read the
\* local collection holds a remote user id that is not the sentinel; a pass
\* that has issued an upsert holds such an id and has read and parsed the
\* collection; a pass that issued an upsert writes the timestamp only once
\* the bulk upsert has answered with success, or has answered with an error
\* and every per-record upsert has answered; and a pass whose identity
\* resolution failed issues no upsert and writes no timestamp.
C28_StepsInOrder ==
    /\ \A i \in 1..Len(passes) :
          /\ passes[i].userId # Null => RemoteUser(passes[i].userId)
          /\ passes[i].pc \in {"bulk", "single"} =>
                RemoteUser(passes[i].userId) /\ journalEntries.kind = "list"
          /\ passes[i].pc \in {"lookup", "insert"} =>
                passes[i].userId = Null /\ passes[i].bulkCalls = 0
    /\ lastDone.ended =>
          /\ lastDone.userId # Null => RemoteUser(lastDone.userId)
          /\ lastDone.bulkCalls > 0 =>
                RemoteUser(lastDone.userId) /\ journalEntries.kind = "list"
          /\ lastDone.wrote /\ lastDone.bulkCalls > 0 =>
                \/ lastDone.bulk = "ok"
                \/ lastDone.bulk = "error" /\ lastDone.attempted = Items
          /\ lastDone.resolved = "lookup" /\ lastDone.userId = Null =>
                lastDone.bulkCalls = 0 /\ ~lastDone.wrote

\* a pass obtained its id from the Identity Resolver, read two records, saw
\* the bulk upsert refused and wrote the timestamp after the second record
C28_Witness ==
    /\ lastDone.ended /\ lastDone.wrote
    /\ lastDone.resolved = "lookup" /\ lastDone.userId = RemoteId
    /\ lastDone.bulk = "error"
    /\ lastDone.attempted = <<1, 2>>
    /\ lastDone.succeeded = 1

\* the per-record upserts issued so far are those of the first records of the
\* batch, one for each, in batch order
OncePerRecord(attempted) ==
    /\ Len(attempted) <= Len(Items)
    /\ \A k \in 1..Len(attempted) : attempted[k] = Items[k]

\* C29: a pass that calls syncDiaries with a user id of the remote issues
\* exactly one bulk upsert, for the whole batch; it issues per-record upserts
\* only after that upsert was answered with an error, at most one for each
\* record: a record is sent at most twice.
C29_OneBulkThenPerRecord ==
    /\ \A i \in 1..Len(passes) :
          /\ passes[i].pc = "bulk" =>
                passes[i].bulkCalls = 1 /\ passes[i].attempted = <<>>
          /\ passes[i].pc = "single" =>
                /\ passes[i].bulkCalls = 1 /\ passes[i].bulk = "error"
                /\ OncePerRecord(passes[i].attempted)
          /\ passes[i].pc \notin {"bulk", "single"} =>
                passes[i].bulkCalls = 0 /\ passes[i].attempted = <<>>
    /\ lastDone.ended =>
          /\ RemoteUser(lastDone.userId) /\ journalEntries.kind = "list"
                <=> lastDone.bulkCalls = 1
          /\ lastDone.bulkCalls <= 1
          /\ lastDone.attempted # <<>> => lastDone.bulk = "error"
          /\ OncePerRecord(lastDone.attempted)

\* the bulk upsert of a pass was refused and the upsert of its first record
\* is awaited
C29_Witness ==
    \E i \in 1..Len(passes) :
        /\ passes[i].pc = "single"
        /\ passes[i].bulk = "error"
        /\ passes[i].bulkCalls = 1
        /\ passes[i].attempted = <<1>>

\* C30: syncDiaries called with an empty user id or with the sentinel issues
\* no remote call and returns success = false; the rows of every upsert it
\* issues carry its userId argument as user_id, which is then neither empty
\* nor the sentinel.
C30_NoRowForSentinelUser ==
    gateway.fn = "syncDiaries" =>
        /\ gateway.userId \in {Null, "", LOCAL_USER_ID} =>
              /\ gateway.remote = 0
              /\ gateway.pc = "return"
              /\ ~gateway.res.success
              /\ gateway.user_id = Null
        /\ gateway.remote > 0 =>
              /\ gateway.user_id = gateway.userId
              /\ gateway.user_id \notin {Null, "", LOCAL_USER_ID}

\* syncDiaries was called with the sentinel while a client is configured, and
\* returned its failure
C30_Witness ==
    /\ gateway.fn = "syncDiaries"
    /\ gateway.userId = LOCAL_USER_ID
    /\ supabase /\ ~isLocalMode
    /\ gateway.pc = "return"
    /\ gateway.res = Failure("invalid-user")
    /\ gateway.remote = 0

\* the periodic timer is armed and its next tick starts a pass
TickStartsPass ==
    /\ mounted
    /\ interval.active
    /\ ~interval.isSyncing
    /\ ~SyncDataSkips(Closure(interval.isSyncing, interval.currentUser))

\* C31: a tick of the periodic timer starts a pass only when auto-sync is
\* enabled, the client is configured, local-only mode is off and no pass is in
\* progress; in local-only mode or without a client no periodic timer is armed.
\* Violated: once one of two overlapping passes (C1) has ended, isSyncing is
\* false, the timer is armed again with that value, and its tick starts a
\* pass while the other pass is still in flight.
C31_TickStartsPassOnlyWhenIdle ==
    /\ TickStartsPass =>
          isAutoSyncEnabled /\ supabase /\ ~isLocalMode /\ passes = <<>>
    /\ isLocalMode \/ ~supabase => ~interval.active

\* C32: while 'auto_sync_enabled' is 'false' neither the periodic timer nor
\* the startup and catch-up timeouts start a pass.
\* Violated: the timeouts call triggerManualSync, and syncData does not look
\* at isAutoSyncEnabled.
C32_DisabledStartsNoPass ==
    ~isAutoSyncEnabled =>
        /\ ~interval.active
        /\ started.startup = 0 /\ started.catchup = 0
        /\ lastOp.op = "timer" => ~lastOp.started

\* the rows of the remote diary relation hold record i under user_id
Present(i, user_id) == DiaryRow(i, user_id) \in diary_entries

\* C33 as stated: after a pass that reports success, every record of the
\* local collection is in the remote relation under the resolved user id.
C33_SuccessMeansAllPresent ==
    lastDone.ended /\ lastDone.result /\ journalEntries.kind = "list" =>
        \A i \in Range(Items) : Present(i, lastDone.userId)

\* C33 amended: after a pass that reports success on the answer of its bulk
\* upsert, every record of the local collection is in the remote relation
\* under the resolved user id; after a pass that reports success on its
\* per-record upserts, at least as many records as it counted are there, and
\* it counted at least one.
C33_SuccessMeansAcknowledgedPresent ==
    lastDone.ended /\ lastDone.result /\ journalEntries.kind = "list" =>
        /\ lastDone.userId = RemoteId
        /\ lastDone.bulk \in {"ok", "error"}
        /\ lastDone.bulk = "ok" => \A i \in Range(Items) : Present(i, lastDone.userId)
        /\ lastDone.bulk = "error" =>
              /\ lastDone.succeeded >= 1
              /\ Cardinality({i \in Range(Items) : Present(i, lastDone.userId)})
                    >= lastDone.succeeded

\* a pass over two records reported success after the upsert of the second
\* record alone succeeded, and the first record is not in the relation
C33_Witness ==
    /\ lastDone.ended /\ lastDone.result /\ lastDone.bulk = "error"
    /\ Items = <<1, 2>> /\ lastDone.succeeded = 1
    /\ ~Present(1, lastDone.userId) /\ Present(2, lastDone.userId)

\* C34: no step of the hook, whatever the outcome of the pass it belongs to,
\* changes 'journalEntries' or another local key than 'last_sync_time', and
\* 'last_sync_time' is written only in a step that ends a pass.
C34_PassLeavesLocalDataAlone ==
    [][/\ journalEntries' = journalEntries
       /\ lineUsernameKey' = lineUsernameKey
       /\ isAutoSyncEnabled' = isAutoSyncEnabled
       /\ consent_histories' = consent_histories
       /\ localStorage' = localStorage
       /\ last_sync_time' # last_sync_time => lastDone'.ended]_vars

\* a pass over two records ended in partial success and wrote the timestamp,
\* and the two records are still in the collection
C34_Witness ==
    /\ lastDone.ended /\ lastDone.result /\ lastDone.wrote
    /\ lastDone.bulk = "error" /\ lastDone.succeeded = 1
    /\ journalEntries = [kind |-> "list", items |-> Batch(2)]
    /\ last_sync_time = 1

\* C35: no pass ends with its promise rejected: every pass that ends returned
\* a boolean.  A pass that read a collection that is no JSON or no list
\* returned false with the message of what was thrown as error, and a pass
\* whose bulk upsert raised got a result object with success = false from
\* syncDiaries and returned false with the message of that object as error.
C35_NeverRejects ==
    /\ lastOp.returned # "rejected"
    /\ lastDone.ended =>
          /\ ~lastDone.rejected
          /\ lastDone.result \in BOOLEAN
          /\ lastDone.userId # Null /\ journalEntries.kind = "malformed" =>
                ~lastDone.result /\ lastDone.error = "parse-error"
          /\ lastDone.userId # Null /\ journalEntries.kind = "notlist" =>
                ~lastDone.result /\ lastDone.error = "type-error"
          /\ lastDone.bulk = "throw" =>
                ~lastDone.result /\ lastDone.error = "sync-throw"

\* a pass read a collection that is JSON but no list, and returned false
C35_Witness ==
    /\ lastDone.ended /\ ~lastDone.result /\ ~lastDone.rejected
    /\ journalEntries.kind = "notlist"
    /\ lastDone.userId = RemoteId
    /\ lastDone.error = "type-error"

\* C36: in local-only mode saveConsentHistory appends its record to the local
\* 'consent_histories' list and returns success, and syncConsentHistories and
\* syncConsentHistoriesToLocal return true; none of them issues a remote call.
\* Violated: supabase is null whenever isLocalMode is true, so the three return
\* at "if (!supabase)" with a failure, or false, and the local-mode branches
\* are never reached.
C36_LocalModeConsents ==
    isLocalMode /\ gateway.pc = "return" =>
        /\ gateway.fn \in {"saveConsentHistory", "syncConsentHistories",
                           "syncConsentHistoriesToLocal"} => gateway.remote = 0
        /\ gateway.fn = "saveConsentHistory"
              /\ consent_histories.kind \in {"absent", "list"} =>
              /\ gateway.res.success
              /\ consent_histories.kind = "list"
              /\ gateway.record \in consent_histories.items
        /\ gateway.fn \in {"syncConsentHistories", "syncConsentHistoriesToLocal"} =>
              gateway.value = "true"

\* C37: the rows built for one batch have different ids.
\* Violated: the ids of two records without one are both Date.now().toString(),
\* read within the same millisecond.
C37_DistinctIdsInBatch ==
    \A i, j \in 1..Len(formattedDiaries) :
        i # j => formattedDiaries[i] # formattedDiaries[j]

\* C38: after cleanupTestData filtered a local list, the list holds the
\* entries that do not match the keywords, as they were and in their order,
\* localRemoved is the number of entries removed, and an entry was removed
\* if and only if the filter of the remote delete matches the same row.
\* Violated: includes compares the characters as they are and ilike ignores
\* case, so an entry whose event holds 'TEST' stays in the local list while its
\* row is deleted from the remote.
C38_CleanupRemovesSameEntries ==
    cleanup.parsed =>
        /\ journalEntries.kind = "list"
        /\ journalEntries.items = SelectSeq(cleanup.entries, RealEntry)
        /\ cleanup.localRemoved = Len(cleanup.entries) - Len(journalEntries.items)
        /\ \A k \in 1..Len(cleanup.entries) :
              IsTestData(cleanup.entries[k]) <=> RemoteFilter(cleanup.entries[k])

\* C39: after a pass that returned true, lastSyncTime holds the value stored
\* under 'last_sync_time' and error is null.
\* Violated: with no stored collection the pass reads the clock once for
\* setLastSyncTime and once more for setItem; and a pass that succeeds after
\* an overlapping pass (C1) failed leaves the error of that pass in place.
C39_MemoryEqualsStored ==
    lastDone.ended /\ lastDone.result =>
        lastSyncTime = "equal" /\ error = Null
====
